---- MODULE Spec2Model ----
(***************************************************************************)
(* A model of the docria document store (py/docria/model.py), its msgpack  *)
(* codec (py/docria/codec.py) and its container, boundary stream and file  *)
(* index (py/docria/storage.py).                                           *)
(*                                                                         *)
(* Python objects are modelled by identity: Node objects live in `heap`,   *)
(* NodeLayerCollection objects (with their NodeLayerSchema) in `lays`,     *)
(* Text objects in `txts`; an object's identity is its index.  The value   *)
(* None of a reference is the index 0.  Field values are records whose     *)
(* field name tells their Python type.                                     *)
(***************************************************************************)
EXTENDS Integers, Sequences, FiniteSets, TLC

VARIABLES heap,   \* Node objects: [id, coll, f]  (Node._id, Node.collection, the dict)
          lays,   \* NodeLayerCollection objects: [name, fields, nodes, num]
          txts,   \* Text objects: [name, text]
          doc,    \* the Document: [layers, texts] (ordered dicts name -> object)
          ret,    \* outcome of the last operation on the store
          wire,   \* the bytes MsgpackCodec.encode returned (NoWire before)
          dec,    \* the decoder at work on wire: its position and its locals
          bw,     \* a _BoundaryWriter and the physical bytes it has written
          br,     \* a _BoundaryReader over those bytes and what it has returned
          cw,     \* a MsgpackDocumentWriter and the file it writes
          cr,     \* a MsgpackDocumentReader over that file
          findex, \* a DocumentFileIndex of that file and its last search
          pool    \* build_msgpack_directory_fileindex: the workers, the master index

storeVars == <<heap, lays, txts, doc, ret>>

codecVars == <<wire, dec>>

ioVars == <<bw, br, cw, cr, findex, pool>>

vars == <<heap, lays, txts, doc, ret, wire, dec, bw, br, cw, cr, findex, pool>>

\* An object of storage.py that has not been constructed.
Unbuilt == [built |-> FALSE]

NoStorage ==
    bw = Unbuilt /\ br = Unbuilt /\ cw = Unbuilt /\ cr = Unbuilt /\ findex = Unbuilt /\ pool = Unbuilt

-----------------------------------------------------------------------------
(* Generic helpers *)

Min(a, b) == IF a < b THEN a ELSE b

Max(a, b) == IF a > b THEN a ELSE b

Range(s) == {s[i] : i \in DOMAIN s}

\* The function f with key k set to v (a Python dict assignment d[k] = v).
DictSet(f, k, v) == [x \in DOMAIN f \cup {k} |-> IF x = k THEN v ELSE f[x]]

\* The function f without key k (del d[k]).
DictDel(f, k) == [x \in DOMAIN f \ {k} |-> f[x]]

EmptyDict == [x \in {} |-> 0]

\* The elements of s that satisfy Test, in order.
RECURSIVE FilterSeq(_, _)
FilterSeq(s, keep) ==
    IF s = <<>> THEN <<>>
    ELSE (IF Head(s) \in keep THEN <<Head(s)>> ELSE <<>>) \o FilterSeq(Tail(s), keep)

-----------------------------------------------------------------------------
(* Values *)

None == 0                     \* a None reference (Node.collection, a tombstoned slot)

NoneV == [none |-> TRUE]      \* the value None held by a field or a column entry

IntV(i) == [int |-> i]

StrV(s) == [str |-> s]

NodeV(n) == [node |-> n]                    \* a Node reference

ListV(ns) == [list |-> ns]                  \* a Python list of Node references

NodeSpanV(l, r) == [left |-> l, right |-> r]   \* NodeSpan(left, right)

TextSpanV(t, a, b) == [text |-> t, start |-> a, stop |-> b]   \* TextSpan(text, a, b)

-----------------------------------------------------------------------------
(* DataTypes: cls is the Python class (it decides is_valid), typename the   *)
(* DataTypeEnum member, arg the "layer" or "context" option, def the        *)
(* "default" option (NoneV when the type has none).                        *)

DataType(cls, typename, arg, def) == [cls |-> cls, typename |-> typename, arg |-> arg, def |-> def]

T_int32 == DataType("DataTypeInt32", "I32", "", IntV(0))

T_string == DataType("DataTypeString", "STRING", "", StrV(""))

T_noderef(layer) == DataType("DataTypeNoderef", "NODEREF", layer, NoneV)

T_noderef_many(layer) == DataType("DataTypeNoderefList", "NODEREF_MANY", layer, NoneV)

T_nodespan(layer) == DataType("DataTypeNodespan", "NODEREF_SPAN", layer, NoneV)

T_span(context) == DataType("DataTypeTextspan", "SPAN", context, NoneV)

Int32Max == 2147483647

Int32Min == (-Int32Max) - 1

\* The store as one value: the operators below take it and return the next one.
Store(h, ls, tx, d) == [heap |-> h, lays |-> ls, txts |-> tx, doc |-> d]

\* Node.i: asserts that the node is bound to an id.
NodeHasId(st, n) == st.heap[n].id # -1

\* A validity predicate for which a node reference stays valid when the node
\* has been removed from its layer.
is_valid_when_removed(st, t, v) ==
    CASE t.cls = "DataTypeNoderef" -> "node" \in DOMAIN v
      [] t.cls = "DataTypeNoderefList" -> "list" \in DOMAIN v
      [] t.cls = "DataTypeNodespan" -> "left" \in DOMAIN v
      [] t.cls = "DataTypeInt32" -> "int" \in DOMAIN v
      [] t.cls = "DataTypeTextspan" -> "text" \in DOMAIN v
      [] OTHER -> TRUE

\* DataType*.is_valid, by class.  The reference types look at the state of
\* the referenced Node objects.
is_valid(st, t, v) ==
    LET h == st.heap
        ls == st.lays
    IN
    CASE t.cls = "DataTypeInt32" ->
            "int" \in DOMAIN v /\ Int32Min <= v.int /\ v.int <= Int32Max
      [] t.cls = "DataTypeString" -> "str" \in DOMAIN v
      [] t.cls = "DataTypeNoderef" ->
            /\ "node" \in DOMAIN v
            /\ h[v.node].coll # None
            /\ ls[h[v.node].coll].name = t.arg
      [] t.cls = "DataTypeNoderefList" ->
            /\ "list" \in DOMAIN v
            /\ \A i \in DOMAIN v.list :
                  h[v.list[i]].coll # None /\ ls[h[v.list[i]].coll].name = t.arg
      [] t.cls = "DataTypeNodespan" ->
            /\ "left" \in DOMAIN v
            /\ h[v.left].coll # None
            /\ h[v.right].coll # None
            /\ ls[h[v.left].coll].name = t.arg
            /\ ls[h[v.right].coll].name = t.arg
            /\ NodeHasId(st, v.left) /\ NodeHasId(st, v.right)
            /\ h[v.left].id <= h[v.right].id
      [] t.cls = "DataTypeTextspan" ->
            "text" \in DOMAIN v /\ st.txts[v.text].name = t.arg
      [] OTHER -> TRUE      \* DataType.is_valid

-----------------------------------------------------------------------------
(* NodeLayerSchema and NodeLayerCollection *)

\* Node.__init__: a dict with the given items, bound to no collection.
Node(fields) == [id |-> -1, coll |-> None, f |-> fields]

\* NodeLayerCollection.__init__ over NodeLayerSchema(name) with the given
\* fields (a sequence of [name, type]: the schema's dict in insertion order).
NodeLayerCollection(name, fields) == [name |-> name, fields |-> fields, nodes |-> <<>>, num |-> 0]

FieldNames(fields) == {fields[i].name : i \in DOMAIN fields}

FieldType(fields, name) == fields[CHOOSE i \in DOMAIN fields : fields[i].name = name].type

\* NodeLayerCollection._update_default_values: the fields whose type has a default.
default_values(fields) ==
    LET withdef == {i \in DOMAIN fields : fields[i].type.def # NoneV}
    IN  [k \in {fields[i].name : i \in withdef} |-> FieldType(fields, k).def]

\* The live nodes of a layer, in array order (NodeLayerCollection.__iter__).
LiveNodes(layer) == FilterSeq(layer.nodes, Range(layer.nodes) \ {None})

\* len(layer)
LayerLen(layer) == layer.num

\* The check of one field of NodeLayerCollection.validate: "" when the value
\* is valid, else the exception raised.  The validity predicate is the one of
\* the field type of the node's own collection; the asserts that follow
\* restate it, so an invalid value always raises.
validate_field(st, L, n, k) ==
    LET c == st.heap[n].coll
        t == FieldType(st.lays[L].fields, st.lays[L].fields[k].name)
        name == st.lays[L].fields[k].name
        v == st.heap[n].f[name]
    IN  IF c = None THEN "AttributeError"
        ELSE IF name \notin FieldNames(st.lays[c].fields) THEN "KeyError"
        ELSE IF is_valid(st, FieldType(st.lays[c].fields, name), v) THEN ""
        ELSE CASE t.typename = "NODEREF_SPAN" /\ "left" \notin DOMAIN v -> "AttributeError"
               [] t.typename = "NODEREF" /\ "node" \notin DOMAIN v -> "AttributeError"
               [] OTHER -> "AssertionError"

\* NodeLayerCollection.validate(node): "" when it returns True, else the
\* exception of the first invalid field in schema order.
RECURSIVE validate_from(_, _, _, _)
validate_from(st, L, n, k) ==
    IF k > Len(st.lays[L].fields) THEN ""
    ELSE IF st.lays[L].fields[k].name \in DOMAIN st.heap[n].f
            /\ validate_field(st, L, n, k) # ""
         THEN validate_field(st, L, n, k)
         ELSE validate_from(st, L, n, k + 1)

validate(st, L, n) == validate_from(st, L, n, 1)

\* The result of an operation: the store it leaves, the exception it raised
\* ("" when it returned) and the node it returned (None when none).
Result(st, exc, node) == [st |-> st, exc |-> exc, node |-> node]

\* NodeLayerCollection.add(**kwargs): a new Node with the defaults and the
\* given fields, validated, then appended.
add(st, L, kwargs) ==
    LET n == Len(st.heap) + 1
        dflt == default_values(st.lays[L].fields)
        f == [k \in DOMAIN dflt \cup DOMAIN kwargs |->
                 IF k \in DOMAIN kwargs THEN kwargs[k] ELSE dflt[k]]
        node == [id |-> Len(st.lays[L].nodes), coll |-> L, f |-> f]
        st1 == [st EXCEPT !.heap = Append(@, node)]
        v == validate(st1, L, n)
    IN  IF v # "" THEN Result(st, v, None)
        ELSE Result([st1 EXCEPT !.lays[L].nodes = Append(@, n),
                                !.lays[L].num = @ + 1], "", n)

\* NodeLayerCollection.add(*args) for one Node argument: bound and appended,
\* neither validated nor taken out of the collection it was in.
add_node(st, L, n) ==
    Result([st EXCEPT !.heap[n].id = Len(st.lays[L].nodes),
                      !.heap[n].coll = L,
                      !.lays[L].nodes = Append(@, n),
                      !.lays[L].num = @ + 1], "", None)

\* The binding loop of NodeLayerCollection.add_many, from the k-th node on.
RECURSIVE add_many_bind(_, _, _, _)
add_many_bind(st, L, ns, k) ==
    IF k > Len(ns) THEN Result(st, "", None)
    ELSE IF st.heap[ns[k]].coll # None THEN Result(st, "AssertionError", None)
    ELSE add_many_bind([st EXCEPT !.heap[ns[k]].id = Len(st.lays[L].nodes),
                                  !.heap[ns[k]].coll = L,
                                  !.lays[L].nodes = Append(@, ns[k]),
                                  !.lays[L].num = @ + 1], L, ns, k + 1)

\* The validation loop of add_many: the first exception, "" when none.
RECURSIVE add_many_validate(_, _, _, _)
add_many_validate(st, L, ns, k) ==
    IF k > Len(ns) THEN ""
    ELSE IF validate(st, L, ns[k]) # "" THEN validate(st, L, ns[k])
    ELSE add_many_validate(st, L, ns, k + 1)

\* The default fill of add_many over the slots appended since start_pos.
RECURSIVE add_many_fill(_, _, _)
add_many_fill(st, L, pos) ==
    IF pos > Len(st.lays[L].nodes) THEN st
    ELSE LET n == st.lays[L].nodes[pos]
             dflt == default_values(st.lays[L].fields)
             f == st.heap[n].f
         IN  add_many_fill([st EXCEPT !.heap[n].f =
                               [k \in DOMAIN dflt \cup DOMAIN f |->
                                   IF k \in DOMAIN f THEN f[k] ELSE dflt[k]]], L, pos + 1)

\* NodeLayerCollection.add_many(nodes) with default_fill and full_validation
\* left True.  A failed assertion leaves the nodes bound so far in the layer.
add_many(st, L, ns) ==
    LET start_pos == Len(st.lays[L].nodes)
        b == add_many_bind(st, L, ns, 1)
        v == add_many_validate(b.st, L, ns, 1)
    IN  IF b.exc # "" THEN b
        ELSE IF v # "" THEN Result(b.st, v, None)
        ELSE Result(add_many_fill(b.st, L, start_pos + 1), "", None)

\* The loop of NodeLayerCollection.compact from slot k on (slots are numbered
\* from 1 here, ids from 0): i live nodes were moved to the front so far.
RECURSIVE compact_loop(_, _, _, _)
compact_loop(st, L, k, i) ==
    IF k > Len(st.lays[L].nodes) THEN [st EXCEPT !.lays[L].nodes = SubSeq(@, 1, i)]
    ELSE IF st.lays[L].nodes[k] = None THEN compact_loop(st, L, k + 1, i)
    ELSE LET n == st.lays[L].nodes[k]
         IN  compact_loop([st EXCEPT !.lays[L].nodes[i + 1] = n,
                                     !.heap[n].id = i], L, k + 1, i + 1)

\* A compact that drops the tombstones and leaves the ids as they were.
compact_without_renumbering(st, L) ==
    [st EXCEPT !.lays[L].nodes = LiveNodes(st.lays[L])]

\* NodeLayerCollection.compact
compact(st, L) ==
    IF Len(st.lays[L].nodes) = st.lays[L].num THEN st
    ELSE compact_loop(st, L, 1, 0)

\* The array slot a Python list index names (negative indices count from the
\* end), 0 when it is out of range (IndexError).
ListSlot(len, ix) ==
    IF 0 <= ix /\ ix < len THEN ix + 1
    ELSE IF ix < 0 /\ -ix <= len THEN len + ix + 1
    ELSE 0

\* A removal of one Node that leaves the live count as it was.
remove_one_keeping_num(st, L, n) ==
    IF st.heap[n].coll # L THEN Result(st, "ValueError", None)
    ELSE IF ListSlot(Len(st.lays[L].nodes), st.heap[n].id) = 0
         THEN Result(st, "IndexError", None)
    ELSE Result([st EXCEPT !.lays[L].nodes[ListSlot(Len(st.lays[L].nodes), st.heap[n].id)] = None,
                           !.heap[n].coll = None], "", None)

\* The body of NodeLayerCollection.remove for one Node.
remove_one(st, L, n) ==
    IF st.heap[n].coll # L THEN Result(st, "ValueError", None)
    ELSE IF ListSlot(Len(st.lays[L].nodes), st.heap[n].id) = 0
         THEN Result(st, "IndexError", None)
    ELSE Result([st EXCEPT !.lays[L].nodes[ListSlot(Len(st.lays[L].nodes), st.heap[n].id)] = None,
                           !.lays[L].num = @ - 1,
                           !.heap[n].coll = None], "", None)

\* The loop of remove over an iterable of Nodes: it stops at the first exception.
RECURSIVE remove_loop(_, _, _, _)
remove_loop(st, L, ns, k) ==
    IF k > Len(ns) THEN Result(st, "", None)
    ELSE LET r == remove_one(st, L, ns[k])
         IN  IF r.exc # "" THEN r ELSE remove_loop(r.st, L, ns, k + 1)

\* The compaction trigger that ends remove: 0.75*len(_nodes) > num and
\* len(_nodes) > 16 (in integers: 3*len > 4*num).
CompactTriggerLen == 16

remove_trigger(st, L) ==
    3 * Len(st.lays[L].nodes) > 4 * st.lays[L].num
        /\ Len(st.lays[L].nodes) > CompactTriggerLen

\* NodeLayerCollection.remove(node) for a Node (ns of length 1, single) or an
\* iterable of Nodes.
remove(st, L, ns) ==
    LET r == remove_loop(st, L, ns, 1)
    IN  IF r.exc # "" THEN r
        ELSE IF remove_trigger(r.st, L) THEN Result(compact(r.st, L), "", None)
        ELSE r

\* Node.detach: self.collection.remove(self)
detach(st, n) ==
    IF st.heap[n].coll = None THEN Result(st, "AttributeError", None)
    ELSE remove(st, st.heap[n].coll, <<n>>)

\* The first loop of NodeLayerCollection.retain, from the k-th node on: the
\* nodes to retain are marked by a negative id.
RECURSIVE retain_mark(_, _, _, _)
retain_mark(st, L, ns, k) ==
    IF k > Len(ns) THEN Result(st, "", None)
    ELSE IF st.heap[ns[k]].coll # L THEN Result(st, "ValueError", None)
    ELSE retain_mark([st EXCEPT !.heap[ns[k]].id = IF @ >= 0 THEN -(@ + 1) ELSE @],
                     L, ns, k + 1)

\* The second loop of retain from slot i on, k nodes kept so far, and the
\* del self._nodes[k:] after it.  n._id of an empty slot is an AttributeError.
RECURSIVE retain_sweep(_, _, _, _)
retain_sweep(st, L, i, k) ==
    IF i > Len(st.lays[L].nodes) THEN Result([st EXCEPT !.lays[L].nodes = SubSeq(@, 1, k)], "", None)
    ELSE IF st.lays[L].nodes[i] = None THEN Result(st, "AttributeError", None)
    ELSE IF st.heap[st.lays[L].nodes[i]].id >= 0
         THEN retain_sweep([st EXCEPT !.heap[st.lays[L].nodes[i]].coll = None,
                                      !.lays[L].num = @ - 1], L, i + 1, k)
    ELSE retain_sweep([st EXCEPT !.lays[L].nodes[k + 1] = st.lays[L].nodes[i],
                                 !.heap[st.lays[L].nodes[i]].id = k], L, i + 1, k + 1)

\* NodeLayerCollection.retain(nodes)
retain(st, L, ns) ==
    IF retain_mark(st, L, ns, 1).exc # "" THEN retain_mark(st, L, ns, 1)
    ELSE retain_sweep(retain_mark(st, L, ns, 1).st, L, 1, 0)

\* The loop of add_field over the nodes the layer iterates: n[name] = default
RECURSIVE add_field_fill(_, _, _, _)
add_field_fill(st, it, name, defaultvalue) ==
    IF it = <<>> THEN st
    ELSE add_field_fill([st EXCEPT !.heap[Head(it)].f = DictSet(@, name, defaultvalue)],
                        Tail(it), name, defaultvalue)

\* NodeLayerCollection.add_field(name, type); type.default() is None (NoneV)
\* for a type without the option.
add_field(st, L, name, type) ==
    IF name \in FieldNames(st.lays[L].fields) THEN Result(st, "SchemaValidationError", None)
    ELSE Result(add_field_fill([st EXCEPT !.lays[L].fields = Append(@, [name |-> name, type |-> type])],
                               IF st.lays[L].num = Len(st.lays[L].nodes) THEN st.lays[L].nodes
                               ELSE LiveNodes(st.lays[L]),
                               name, type.def), "", None)

-----------------------------------------------------------------------------
(* Document *)

\* Python dicts in insertion order: sequences of [name, obj].
DictNames(d) == {d[i].name : i \in DOMAIN d}

DictGet(d, name) == d[CHOOSE i \in DOMAIN d : d[i].name = name].obj

DictPut(d, name, obj) ==
    IF name \in DictNames(d)
    THEN [i \in DOMAIN d |-> IF d[i].name = name THEN [name |-> name, obj |-> obj] ELSE d[i]]
    ELSE Append(d, [name |-> name, obj |-> obj])

DictRemove(d, name) == FilterSeq(d, {e \in Range(d) : e.name # name})

\* Document.__init__
Document == [layers |-> <<>>, texts |-> <<>>]

\* Document.add_text(name, text): a new Text object under the name.
add_text(st, name, text) ==
    [st EXCEPT !.txts = Append(@, [name |-> name, text |-> text]),
               !.doc.texts = DictPut(@, name, Len(st.txts) + 1)]

\* del doc.texts[name]
del_text(st, name) == [st EXCEPT !.doc.texts = DictRemove(@, name)]

\* Document.add_layer(name, **fields): a new, empty NodeLayerCollection under
\* the name.
add_layer(st, name, fields) ==
    [st EXCEPT !.lays = Append(@, NodeLayerCollection(name, fields)),
               !.doc.layers = DictPut(@, name, Len(st.lays) + 1)]

\* The (layer, field) pairs of Document.remove_layer's referencing_layer_field:
\* the NODEREF and NODEREF_MANY fields of the other layers that name the layer.
referencing_layer_field(st, name) ==
    UNION {{<<e.name, st.lays[e.obj].fields[i].name>> :
               i \in {j \in DOMAIN st.lays[e.obj].fields :
                        /\ st.lays[e.obj].fields[j].type.typename \in {"NODEREF", "NODEREF_MANY"}
                        /\ st.lays[e.obj].fields[j].type.arg = name}} :
           e \in {x \in Range(st.doc.layers) : x.name # name}}

\* Document.remove_layer(name, fieldcascade)
remove_layer(st, name, fieldcascade) ==
    IF name \notin DictNames(st.doc.layers) THEN Result(st, "", None)
    ELSE IF ~fieldcascade /\ referencing_layer_field(st, name) # {}
         THEN Result(st, "DataValidationError", None)
    ELSE Result([st EXCEPT !.doc.layers = DictRemove(@, name)], "", None)

RefTypenames == {"NODEREF", "NODEREF_MANY", "NODEREF_SPAN"}

\* Document.compile's referenced_layers and referenced_texts, as the sets of
\* the names the schemas of the document's layers refer to.
referenced_layers(st) ==
    UNION {{st.lays[e.obj].fields[i].type.arg :
               i \in {j \in DOMAIN st.lays[e.obj].fields :
                        st.lays[e.obj].fields[j].type.typename \in RefTypenames}} :
           e \in Range(st.doc.layers)}

referenced_texts(st) ==
    UNION {{st.lays[e.obj].fields[i].type.arg :
               i \in {j \in DOMAIN st.lays[e.obj].fields :
                        st.lays[e.obj].fields[j].type.typename = "SPAN"}} :
           e \in Range(st.doc.layers)}

\* What NodeLayerCollection.__iter__ yields.
LayerIter(layer) ==
    IF layer.num = Len(layer.nodes) THEN layer.nodes ELSE LiveNodes(layer)

\* compile's first loop over a layer: the k-th node yielded gets id k-1, for
\* the first len(layer) nodes.
RECURSIVE assign_ids(_, _, _, _)
assign_ids(st, it, num, k) ==
    IF k > Len(it) \/ k > num THEN st
    ELSE assign_ids([st EXCEPT !.heap[it[k]].id = k - 1], it, num, k + 1)

\* A validation loop that does not look for undeclared fields.
RECURSIVE compile_validate_declared(_, _, _, _)
compile_validate_declared(st, L, it, k) ==
    IF k > Len(it) THEN ""
    ELSE IF validate(st, L, it[k]) # "" THEN validate(st, L, it[k])
    ELSE compile_validate_declared(st, L, it, k + 1)

\* compile's validation of the nodes of layer L from the k-th on: "" when all
\* pass, else the first exception.  validate's own return value is dropped;
\* the undeclared fields of a node are looked for right after its validation.
RECURSIVE compile_validate(_, _, _, _)
compile_validate(st, L, it, k) ==
    IF k > Len(it) THEN ""
    ELSE IF it[k] = None THEN "AttributeError"
    ELSE IF validate(st, L, it[k]) # "" THEN validate(st, L, it[k])
    ELSE IF DOMAIN st.heap[it[k]].f \ FieldNames(st.lays[L].fields) # {}
         THEN "SchemaValidationError"
    ELSE compile_validate(st, L, it, k + 1)

\* The offsets that the span fields of layer L add to text_offsets: a
\* function from context to the set of starts and stops.  A value that is no
\* TextSpan has no start: AttributeError.
SpanFieldIxs(layer) ==
    {i \in DOMAIN layer.fields : layer.fields[i].type.typename = "SPAN"}

span_values(st, L) ==
    UNION {{<<st.lays[L].fields[i].type.arg, st.heap[n].f[st.lays[L].fields[i].name]>> :
               n \in {m \in Range(LayerIter(st.lays[L])) \ {None} :
                        st.lays[L].fields[i].name \in DOMAIN st.heap[m].f}} :
           i \in SpanFieldIxs(st.lays[L])}

\* A collection of the starts of the spans only.
collect_starts(st, L, offs) ==
    [c \in DOMAIN offs |->
        offs[c] \cup {p[2].start : p \in {q \in span_values(st, L) : q[1] = c}}]

collect_offsets(st, L, offs) ==
    [c \in DOMAIN offs |->
        offs[c] \cup UNION {{p[2].start, p[2].stop} :
                              p \in {q \in span_values(st, L) : q[1] = c}}]

\* The set S of integers as an ascending sequence: sorted(S).
RECURSIVE sorted(_)
sorted(S) ==
    IF S = {} THEN <<>>
    ELSE LET m == CHOOSE x \in S : \A y \in S : x <= y
         IN  <<m>> \o sorted(S \ {m})

\* The outcome of compile: the store it leaves, the exception ("" when it
\* returned), for a SchemaError the names one of which the error names, and
\* the text_offset_mapping (context -> sorted offsets; an offset's ordinal is
\* its position, counted from 0).
Compiled(st, exc, names, mapping) == [st |-> st, exc |-> exc, names |-> names, mapping |-> mapping]

\* compile's loop over the layers from the k-th on.
RECURSIVE compile_layers(_, _, _, _, _)
compile_layers(st, k, offs, extra_fields_ok, type_validation) ==
    IF k > Len(st.doc.layers) THEN Compiled(st, "", {}, offs)
    ELSE LET L == st.doc.layers[k].obj
             st1 == assign_ids(st, LayerIter(st.lays[L]), st.lays[L].num, 1)
             st2 == compact(st1, L)
             v == IF type_validation /\ ~extra_fields_ok
                  THEN compile_validate(st2, L, LayerIter(st2.lays[L]), 1)
                  ELSE ""
         IN  IF v # "" THEN Compiled(st2, v, {}, offs)
             ELSE IF \E p \in span_values(st2, L) : "start" \notin DOMAIN p[2]
                  THEN Compiled(st2, "AttributeError", {}, offs)
             ELSE compile_layers(st2, k + 1, collect_offsets(st2, L, offs),
                                 extra_fields_ok, type_validation)

\* Document.compile(extra_fields_ok, type_validation)
compile(st, extra_fields_ok, type_validation) ==
    LET missing_layers == referenced_layers(st) \ DictNames(st.doc.layers)
        missing_texts == referenced_texts(st) \ DictNames(st.doc.texts)
        r == compile_layers(st, 1, [c \in DictNames(st.doc.texts) |-> {}],
                            extra_fields_ok, type_validation)
    IN  IF missing_layers # {} THEN Compiled(st, "SchemaError", missing_layers, EmptyDict)
        ELSE IF missing_texts # {} THEN Compiled(st, "SchemaError", missing_texts, EmptyDict)
        ELSE IF r.exc # "" THEN r
        ELSE Compiled(r.st, "", {},
                 [c \in DictNames(st.doc.texts) |->
                     sorted(r.mapping[c] \cup
                            {0, Len(st.txts[DictGet(st.doc.texts, c)].text)})])

-----------------------------------------------------------------------------
(* Codec.encode and MsgpackCodec.encode *)

\* A text is a sequence of characters; text[start:stop] for 0 <= start
\* (empty when stop <= start; positions beyond the end are cut to the end).
Slice(text, start, stop) == SubSeq(text, Min(start, Len(text)) + 1, Min(stop, Len(text)))

\* Text.compile(offsets): the segments between consecutive offsets.
Text_compile(text, offsets) ==
    [i \in 1..(Len(offsets) - 1) |-> Slice(text, offsets[i], offsets[i + 1])]

\* The offset -> ordinal dict of compile's text_offset_mapping, applied to an
\* offset: -1 when the offset is no key (KeyError).
Ordinal(offsets, off) ==
    IF \E i \in DOMAIN offsets : offsets[i] = off
    THEN (CHOOSE i \in DOMAIN offsets : offsets[i] = off) - 1
    ELSE -1

\* The keys of Codec.encoders.
EncoderTypenames ==
    {"I32", "I64", "F64", "BOOL", "STRING", "BINARY",
     "NODEREF", "NODEREF_MANY", "NODEREF_SPAN", "SPAN"}

\* Node.get(n, field, None)
node_getter(st, n, field) ==
    IF field \in DOMAIN st.heap[n].f THEN st.heap[n].f[field] ELSE NoneV

\* The entries one node adds to the column of a field: what
\* Codec.encoders[typename] appends for the value v.  A column entry is NoneV,
\* a scalar, or [ids |-> ...] for a list of node ids.
encoder(st, t, v, mapping) ==
    IF v = NoneV THEN (IF t.typename = "SPAN" THEN <<NoneV, NoneV>> ELSE <<NoneV>>)
    ELSE CASE t.typename = "NODEREF" -> <<IntV(st.heap[v.node].id)>>
           [] t.typename = "NODEREF_MANY" ->
                 IF Len(v.list) = 0 THEN <<NoneV>>
                 ELSE <<[ids |-> [i \in DOMAIN v.list |-> st.heap[v.list[i]].id]]>>
           [] t.typename = "NODEREF_SPAN" ->
                 <<[ids |-> <<st.heap[v.left].id, st.heap[v.right].id - st.heap[v.left].id>>]>>
           [] t.typename = "SPAN" ->
                 <<IntV(Ordinal(mapping[t.arg], v.start)), IntV(Ordinal(mapping[t.arg], v.stop))>>
           [] OTHER -> <<v>>

\* propvalues of one field: the entries of the nodes of the layer, in
\* iteration order.
RECURSIVE propvalues(_, _, _, _, _)
propvalues(st, t, name, it, mapping) ==
    IF it = <<>> THEN <<>>
    ELSE encoder(st, t, node_getter(st, Head(it), name), mapping)
             \o propvalues(st, t, name, Tail(it), mapping)

\* DataType.encode: the type name with the options.
DataType_encode(t) == [typename |-> t.typename, arg |-> t.arg, def |-> t.def]

\* The encoded document: the sections MsgpackCodec.encode writes, in order.
\* On the wire a text is its list of segments, a layer its node count and one
\* column per field of the schema, each after its special-encoding flag.
Wire(magic, types, schema, texts, layers) ==
    [magic |-> magic, types |-> types, schema |-> schema, texts |-> texts, layers |-> layers]

NoWire == Wire("", <<>>, <<>>, <<>>, <<>>)

\* The outcome of encode: the bytes (NoWire when it raised), the store that
\* compile left and the exception.
Encoded(w, st, exc, names) == [wire |-> w, st |-> st, exc |-> exc, names |-> names]

\* The texts section: every text of the document as its segments.
encode_texts(st, mapping) ==
    [i \in DOMAIN st.doc.texts |->
        [name |-> st.txts[st.doc.texts[i].obj].name,
         segs |-> Text_compile(st.txts[st.doc.texts[i].obj].text,
                               mapping[st.txts[st.doc.texts[i].obj].name])]]

\* The schema section of one layer.
encode_schema(layer) ==
    [i \in DOMAIN layer.fields |->
        [name |-> layer.fields[i].name, type |-> DataType_encode(layer.fields[i].type)]]

\* The data section of one layer: types_num_nodes and the columns.
encode_layer(st, layer, mapping) ==
    [num |-> layer.num,
     cols |-> [i \in DOMAIN layer.fields |->
                 [special |-> FALSE,
                  data |-> propvalues(st, layer.fields[i].type, layer.fields[i].name,
                                      LayerIter(layer), mapping)]]]

\* Codec.encode after compile returned, and the writes of MsgpackCodec.encode.
encode_compiled(st, mapping) ==
    IF \E k \in DOMAIN st.doc.layers : \E i \in DOMAIN st.lays[st.doc.layers[k].obj].fields :
           st.lays[st.doc.layers[k].obj].fields[i].type.typename \notin EncoderTypenames
    THEN Encoded(NoWire, st, "KeyError", {})
    ELSE Encoded(Wire("DM_1",
                      [k \in DOMAIN st.doc.layers |-> st.doc.layers[k].name],
                      [k \in DOMAIN st.doc.layers |-> encode_schema(st.lays[st.doc.layers[k].obj])],
                      encode_texts(st, mapping),
                      [k \in DOMAIN st.doc.layers |->
                          encode_layer(st, st.lays[st.doc.layers[k].obj], mapping)]),
                 st, "", {})

\* What encode makes of the outcome of compile.
encode_after(c) ==
    IF c.exc # "" THEN Encoded(NoWire, c.st, c.exc, c.names)
    ELSE encode_compiled(c.st, c.mapping)

\* An encode that writes the layers as they were before compile renumbered
\* the nodes.
encode_before_compile(st, extra_fields_ok, type_validation) ==
    IF compile(st, extra_fields_ok, type_validation).exc # ""
    THEN encode_after(compile(st, extra_fields_ok, type_validation))
    ELSE [encode_compiled(st, compile(st, extra_fields_ok, type_validation).mapping)
             EXCEPT !.st = compile(st, extra_fields_ok, type_validation).st]

\* MsgpackCodec.encode(doc, **kwargs): Codec.encode, which compiles first.
encode(st, extra_fields_ok, type_validation) ==
    encode_after(compile(st, extra_fields_ok, type_validation))

-----------------------------------------------------------------------------
(* MsgpackCodec.decode, MsgpackDocument.document and Codec.commit_layers *)

\* "".join(segs)
RECURSIVE Join(_)
Join(segs) == IF segs = <<>> THEN <<>> ELSE Head(segs) \o Join(Tail(segs))

\* The offsets list of compute_text_offsets: the position at which each
\* segment starts, then the total length.  Ordinal i is entry i+1.
RECURSIVE SegmentOffsets(_, _)
SegmentOffsets(segs, pos) ==
    IF segs = <<>> THEN <<pos>>
    ELSE <<pos>> \o SegmentOffsets(Tail(segs), pos + Len(Head(segs)))

\* MsgpackCodec.compute_text_offsets from the k-th text on: the texts are
\* added to the document; the result pairs the store with text2offsets.
RECURSIVE compute_text_offsets(_, _, _, _)
compute_text_offsets(st, texts, k, t2o) ==
    IF k > Len(texts) THEN [st |-> st, t2o |-> t2o]
    ELSE compute_text_offsets(add_text(st, texts[k].name, Join(texts[k].segs)), texts, k + 1,
                              DictSet(t2o, texts[k].name, SegmentOffsets(texts[k].segs, 0)))

\* MsgpackCodec.decode_schema: every field type becomes a plain DataType of
\* the encoded type name and options.
decode_schema(schema) ==
    [k \in DOMAIN schema |->
        [i \in DOMAIN schema[k] |->
            [name |-> schema[k][i].name,
             type |-> DataType("DataType", schema[k][i].type.typename,
                               schema[k][i].type.arg, schema[k][i].type.def)]]]

\* decode_layer's simple_field over the dicts of the new nodes.
simple_field(fs, col, data) ==
    [i \in DOMAIN fs |->
        IF i <= Len(data) /\ data[i] # NoneV THEN DictSet(fs[i], col, data[i]) ELSE fs[i]]

\* A span_field that keeps the encoded offsets as the field when the document
\* has no text of the context.
span_field_placeholder(fs, col, data, text, offsets) ==
    [i \in DOMAIN fs |->
        IF 2 * i <= Len(data) /\ data[2 * i - 1] # NoneV
        THEN DictSet(fs[i], col,
                     IF text = None THEN data[2 * i - 1]
                     ELSE TextSpanV(text, offsets[data[2 * i - 1].int + 1],
                                    offsets[data[2 * i].int + 1]))
        ELSE fs[i]]

\* decode_layer's span_field: text is the Text object of the context (None
\* when the document has none), offsets its text2offsets entry.
span_field(fs, col, data, text, offsets) ==
    IF text = None /\ Len(data) > 0 THEN fs
    ELSE [i \in DOMAIN fs |->
             IF 2 * i <= Len(data) /\ data[2 * i - 1] # NoneV
             THEN DictSet(fs[i], col, TextSpanV(text, offsets[data[2 * i - 1].int + 1],
                                                offsets[data[2 * i].int + 1]))
             ELSE fs[i]]

\* A loop over the columns that skips a column outside fields without a look
\* at its special-encoding flag.
RECURSIVE decode_columns_unchecked_skip(_, _, _, _, _, _, _)
decode_columns_unchecked_skip(st, t2o, layerschema, cols, i, fs, fields) ==
    IF i > Len(layerschema) THEN [fs |-> fs, exc |-> ""]
    ELSE IF fields # {} /\ layerschema[i].name \notin fields
         THEN decode_columns_unchecked_skip(st, t2o, layerschema, cols, i + 1, fs, fields)
    ELSE IF cols[i].special THEN [fs |-> fs, exc |-> "NotImplementedError"]
    ELSE LET col == layerschema[i].name
             t == layerschema[i].type
             text == IF t.arg \in DictNames(st.doc.texts) THEN DictGet(st.doc.texts, t.arg) ELSE None
             offsets == IF t.arg \in DOMAIN t2o THEN t2o[t.arg] ELSE <<>>
         IN  decode_columns_unchecked_skip(st, t2o, layerschema, cols, i + 1,
                            IF t.typename = "SPAN"
                            THEN span_field(fs, col, cols[i].data, text, offsets)
                            ELSE simple_field(fs, col, cols[i].data), fields)

\* The loop of decode_layer over the columns from the i-th on; fields is the
\* *fields argument (fieldindx is None when it is empty): a column outside it
\* is skipped after its special-encoding flag has been read.
RECURSIVE decode_columns(_, _, _, _, _, _, _)
decode_columns(st, t2o, layerschema, cols, i, fs, fields) ==
    IF i > Len(layerschema) THEN [fs |-> fs, exc |-> ""]
    ELSE IF cols[i].special THEN [fs |-> fs, exc |-> "NotImplementedError"]
    ELSE IF fields # {} /\ layerschema[i].name \notin fields
         THEN decode_columns(st, t2o, layerschema, cols, i + 1, fs, fields)
    ELSE LET col == layerschema[i].name
             t == layerschema[i].type
             text == IF t.arg \in DictNames(st.doc.texts) THEN DictGet(st.doc.texts, t.arg) ELSE None
             offsets == IF t.arg \in DOMAIN t2o THEN t2o[t.arg] ELSE <<>>
         IN  decode_columns(st, t2o, layerschema, cols, i + 1,
                            IF t.typename = "SPAN"
                            THEN span_field(fs, col, cols[i].data, text, offsets)
                            ELSE simple_field(fs, col, cols[i].data), fields)

\* MsgpackCodec.decode_layer: num_nodes new nodes with ids 0..num_nodes-1,
\* bound to no collection, with the fields of the columns.
decode_layer(st, t2o, layerschema, layer, fields) ==
    LET r == decode_columns(st, t2o, layerschema, layer.cols, 1,
                            [i \in 1..layer.num |-> EmptyDict], fields)
        base == Len(st.heap)
    IN  [st |-> [st EXCEPT !.heap = @ \o [i \in 1..layer.num |->
                                            [id |-> i - 1, coll |-> None, f |-> r.fs[i]]]],
         nodes |-> [i \in 1..layer.num |-> base + i],
         exc |-> r.exc]

\* A list element by a Python index that is not negative: 0 stands for
\* IndexError.
At(list, ix) == IF 0 <= ix /\ ix < Len(list) THEN list[ix + 1] ELSE 0

\* The first loop of Codec.commit_layers, from the k-th layer of types on:
\* the layer is added to the document and takes the decoded nodes.
RECURSIVE commit_insert(_, _, _, _, _)
commit_insert(st, types, schema, all_nodes, k) ==
    IF k > Len(types) THEN [st |-> st, exc |-> ""]
    ELSE LET st1 == add_layer(st, types[k], schema[k])
             L == Len(st1.lays)
         IN  IF types[k] \notin DOMAIN all_nodes THEN [st |-> st1, exc |-> "KeyError"]
             ELSE LET ns == all_nodes[types[k]]
                      st2 == [st1 EXCEPT
                                 !.heap = [n \in DOMAIN @ |->
                                             IF n \in Range(ns) THEN [@[n] EXCEPT !.coll = L] ELSE @[n]],
                                 !.lays[L].nodes = ns,
                                 !.lays[L].num = Len(ns)]
                  IN  commit_insert(st2, types, schema, all_nodes, k + 1)

\* The value commit_layers puts in place of the placeholder v of a field of
\* type t; 0 among the nodes stands for an IndexError.
resolved(t, v, target_nodes) ==
    CASE t.typename = "NODEREF" -> NodeV(At(target_nodes, v.int))
      [] t.typename = "NODEREF_MANY" ->
            ListV([i \in DOMAIN v.ids |-> At(target_nodes, v.ids[i])])
      [] OTHER -> NodeSpanV(At(target_nodes, v.ids[1]), At(target_nodes, v.ids[1] + v.ids[2]))

ResolvedNodes(v) ==
    CASE "node" \in DOMAIN v -> {v.node}
      [] "list" \in DOMAIN v -> Range(v.list)
      [] OTHER -> {v.left, v.right}

\* The second loop of Codec.commit_layers, at field i of layer k of types.
RECURSIVE commit_resolve(_, _, _, _, _, _)
commit_resolve(st, types, schema, all_nodes, k, i) ==
    IF k > Len(types) THEN [st |-> st, exc |-> ""]
    ELSE IF i > Len(schema[k]) THEN commit_resolve(st, types, schema, all_nodes, k + 1, 1)
    ELSE IF schema[k][i].type.typename \notin RefTypenames
         THEN commit_resolve(st, types, schema, all_nodes, k, i + 1)
    ELSE IF schema[k][i].type.arg \notin DOMAIN all_nodes THEN [st |-> st, exc |-> "KeyError"]
    ELSE LET t == schema[k][i].type
             col == schema[k][i].name
             target_nodes == all_nodes[t.arg]
             holders == {n \in Range(all_nodes[types[k]]) : col \in DOMAIN st.heap[n].f}
             val(n) == resolved(t, st.heap[n].f[col], target_nodes)
             st1 == [st EXCEPT !.heap = [n \in DOMAIN @ |->
                                           IF n \in holders THEN [@[n] EXCEPT !.f[col] = val(n)]
                                           ELSE @[n]]]
         IN  IF \E n \in holders : 0 \in ResolvedNodes(val(n))
             THEN [st |-> st, exc |-> "IndexError"]
             ELSE commit_resolve(st1, types, schema, all_nodes, k, i + 1)

\* The locals of MsgpackCodec.decode / MsgpackDocument.document(*layers):
\* phase tells where the decoder stands ("idle", "layers" while it runs
\* decode_layer over layer_set, then "done" or "error"), requested is the
\* layers argument, k the next entry of layer_set, st the Document under
\* construction with its objects.
Decoder(phase, requested, layer_set, k, st, schema, t2o, all_nodes, exc) ==
    [phase |-> phase, requested |-> requested, layer_set |-> layer_set, k |-> k, st |-> st,
     schema |-> schema, t2o |-> t2o, all_nodes |-> all_nodes, exc |-> exc]

NoDec == Decoder("idle", <<>>, <<>>, 1, Store(<<>>, <<>>, <<>>, Document), <<>>,
                 EmptyDict, EmptyDict, "")

\* The start of decode(data) (layers = <<>>) and of document(*layers): magic,
\* schema, texts and text offsets.
decode_begin(w, layers) ==
    LET r == compute_text_offsets(Store(<<>>, <<>>, <<>>, Document), w.texts, 1, EmptyDict)
    IN  IF w.magic # "DM_1"
        THEN Decoder("error", layers, <<>>, 1, NoDec.st, <<>>, EmptyDict, EmptyDict, "ValueError")
        ELSE Decoder("layers", layers, IF Len(layers) = 0 THEN w.types ELSE layers, 1,
                     r.st, decode_schema(w.schema), r.t2o, EmptyDict, "")

\* The position of a layer name in the inventory.
TypeIndex(w, typename) == CHOOSE k \in DOMAIN w.types : w.types[k] = typename

\* A loop over layer_set that hands over to commit_layers after its first round.
first_layer_materialized(d) == d.k > 1

\* The loop over layer_set has decoded every layer it was to decode.
layers_materialized(d) == d.k > Len(d.layer_set)

\* decode_layer(unpacker, doc, typename, text2offsets, layerschema, *fields) of
\* the next layer of layer_set, as the loop over layer_set calls it.
decode_layer_fields(w, d, fields) ==
    LET typename == d.layer_set[d.k]
    IN  IF typename \notin Range(w.types) THEN [d EXCEPT !.phase = "error", !.exc = "KeyError"]
        ELSE LET r == decode_layer(d.st, d.t2o, d.schema[TypeIndex(w, typename)],
                                   w.layers[TypeIndex(w, typename)], fields)
             IN  IF r.exc # "" THEN [d EXCEPT !.phase = "error", !.exc = r.exc]
                 ELSE [d EXCEPT !.st = r.st, !.k = @ + 1,
                                !.all_nodes = DictSet(@, typename, r.nodes)]

\* One round of the loop over layer_set: decode_layer of the next layer, with
\* no *fields.
decode_next_layer(w, d) == decode_layer_fields(w, d, {})

\* Codec.commit_layers(doc, types, schema, all_nodes): both loops.
commit_layers(w, d) ==
    LET a == commit_insert(d.st, w.types, d.schema, d.all_nodes, 1)
        b == commit_resolve(a.st, w.types, d.schema, d.all_nodes, 1, 1)
    IN  IF a.exc # "" THEN [d EXCEPT !.phase = "error", !.exc = a.exc, !.st = a.st]
        ELSE IF b.exc # "" THEN [d EXCEPT !.phase = "error", !.exc = b.exc, !.st = b.st]
        ELSE [d EXCEPT !.phase = "done", !.st = b.st]

\* The loop over layer_set to its end, then commit_layers.
RECURSIVE decode_run(_, _)
decode_run(w, d) ==
    IF d.phase # "layers" THEN d
    ELSE IF layers_materialized(d) THEN commit_layers(w, d)
    ELSE decode_run(w, decode_next_layer(w, d))

-----------------------------------------------------------------------------
(* The store under add, add_many, remove, compact and compile *)

Cur == Store(heap, lays, txts, doc)

SetStore(st) ==
    /\ heap' = st.heap
    /\ lays' = st.lays
    /\ txts' = st.txts
    /\ doc' = st.doc

\* The outcome recorded for the last operation: its name, the exception it
\* raised ("" when it returned), the layers on which it ran compact() and,
\* for a SchemaError, the layer or text that its message names.
Outcome(op, exc, compacted, named) ==
    [op |-> op, exc |-> exc, compacted |-> compacted, named |-> named]

MaxNew == 2          \* Node objects created per run

SmallLayer == 2      \* nodes of the small layer at the start

MaxMany == 2         \* nodes handed to one add_many

RemoveStride == 3    \* the nodes that remove is tried on: every third Node object

InitRemoved == 3     \* nodes already removed from the large layer at the start

\* k nodes added to layer L of the store by k calls of add().
RECURSIVE populate(_, _, _)
populate(st, L, k) ==
    IF k = 0 THEN st
    ELSE populate(add(st, L, "pos" :> IntV(k)).st, L, k - 1)

\* A document with a layer "token" that already holds more nodes than the
\* compaction trigger asks for, some of them removed again, and a small layer
\* "sentence".
StoreInit ==
    LET st0 == Store(<<>>, <<>>, <<>>, Document)
        st1 == add_layer(st0, "token", <<[name |-> "pos", type |-> T_int32]>>)
        st2 == add_layer(st1, "sentence", <<[name |-> "pos", type |-> T_int32]>>)
        st3 == populate(st2, 1, CompactTriggerLen + 1)
        st4 == remove(st3, 1, [i \in 1..InitRemoved |-> i * RemoveStride]).st
    IN  populate(st4, 2, SmallLayer)

InitStore ==
    /\ heap = StoreInit.heap
    /\ lays = StoreInit.lays
    /\ txts = StoreInit.txts
    /\ doc = StoreInit.doc
    /\ ret = Outcome("init", "", {}, "")
    /\ wire = NoWire
    /\ dec = NoDec
    /\ NoStorage

\* The Node objects of the initial store.
StoreNodes == CompactTriggerLen + 1 + SmallLayer

AddInputs == {EmptyDict, "pos" :> IntV(7), "pos" :> StrV("x")}

Removable == {n \in DOMAIN heap : n % RemoveStride = 0}

\* layer.add(**kwargs)
StoreAdd(L) ==
    /\ Len(heap) < StoreNodes + MaxNew
    /\ \E kw \in AddInputs :
          LET r == add(Cur, L, kw)
          IN  /\ SetStore(r.st)
              /\ ret' = Outcome("add", r.exc, {}, "")
    /\ UNCHANGED <<codecVars, ioVars>>

\* layer.add_many([Node(), ...]) of j new, unbound nodes.
StoreAddMany(L) ==
    /\ \E j \in 1..Min(MaxMany, StoreNodes + MaxNew - Len(heap)) :
          LET ns == [i \in 1..j |-> Len(heap) + i]
              st == [Cur EXCEPT !.heap = @ \o [i \in 1..j |-> Node(EmptyDict)]]
              r == add_many(st, L, ns)
          IN  /\ SetStore(r.st)
              /\ ret' = Outcome("add_many", r.exc, {}, "")
    /\ UNCHANGED <<codecVars, ioVars>>

\* The arguments of remove: one node, or a list of two
RemoveInputs ==
    {<<n>> : n \in Removable} \cup
    {<<n, n + RemoveStride>> : n \in {m \in Removable : m + RemoveStride \in Removable}}

\* layer.remove(node) and layer.remove([node, node])
StoreRemove(L) ==
    /\ \E ns \in RemoveInputs :
          LET r == remove(Cur, L, ns)
          IN  /\ SetStore(r.st)
              /\ ret' = Outcome("remove", r.exc,
                                IF r.exc = "" /\ remove_trigger(remove_loop(Cur, L, ns, 1).st, L)
                                THEN {L} ELSE {}, "")
    /\ UNCHANGED <<codecVars, ioVars>>

\* layer.compact()
StoreCompact(L) ==
    /\ SetStore(compact(Cur, L))
    /\ ret' = Outcome("compact", "", {L}, "")
    /\ UNCHANGED <<codecVars, ioVars>>

\* doc.compile()
StoreCompile ==
    /\ LET r == compile(Cur, FALSE, TRUE)
       IN  /\ SetStore(r.st)
           /\ ret' = Outcome("compile", r.exc,
                             IF r.exc = "" THEN {DictGet(doc.layers, nm) : nm \in DictNames(doc.layers)}
                             ELSE {}, "")
    /\ UNCHANGED <<codecVars, ioVars>>

NextStore ==
    \/ \E L \in DOMAIN lays : StoreAdd(L)
    \/ \E L \in DOMAIN lays : StoreAddMany(L)
    \/ \E L \in DOMAIN lays : StoreRemove(L)
    \/ \E L \in DOMAIN lays : StoreCompact(L)
    \/ StoreCompile

SpecStore == InitStore /\ [][NextStore]_vars

-----------------------------------------------------------------------------
(* Compaction *)

LiveSlots(layer) == {i \in DOMAIN layer.nodes : layer.nodes[i] # None}

\* C4: in every layer len(layer) is the number of slots that hold a node and
\* every live node's id is its array position; once compact() has run on a
\* layer (called explicitly, by the trigger of remove, or by compile) the
\* array has no tombstones: its length is the live count.
CompactionInvariant ==
    \A L \in DOMAIN lays :
        /\ LayerLen(lays[L]) = Cardinality(LiveSlots(lays[L]))
        /\ \A i \in LiveSlots(lays[L]) :
              heap[lays[L].nodes[i]].id = i - 1 /\ heap[lays[L].nodes[i]].coll = L
        /\ L \in ret.compacted =>
              /\ LiveSlots(lays[L]) = DOMAIN lays[L].nodes
              /\ Len(lays[L].nodes) = LayerLen(lays[L])

\* The trigger of remove has compacted a layer that had grown past 16 slots
\* and lost more than a quarter of its nodes.
CompactionWitness ==
    /\ ret.op = "remove"
    /\ \E L \in ret.compacted :
          /\ Len(lays[L].nodes) < CompactTriggerLen
          /\ Len(lays[L].nodes) > SmallLayer + MaxNew

-----------------------------------------------------------------------------
(* A document under construction, then encoded and decoded *)

MaxDocNodes == 2     \* Node objects created per run

MainText == <<"a", "b", "c">>

\* doc = Document(); doc.add_text("main", ...); a layer "chunk" whose fields
\* refer to the layer "token" that is added after it; "token" with a span
\* over "main" and a reference to its own layer.
DocInit ==
    LET st0 == Store(<<>>, <<>>, <<>>, Document)
        st1 == add_text(st0, "main", MainText)
        st2 == add_layer(st1, "chunk", <<[name |-> "head", type |-> T_noderef("token")],
                                         [name |-> "parts", type |-> T_noderef_many("token")],
                                         [name |-> "range", type |-> T_nodespan("token")]>>)
    IN  add_layer(st2, "token", <<[name |-> "pos", type |-> T_int32],
                                  [name |-> "text", type |-> T_span("main")],
                                  [name |-> "next", type |-> T_noderef("token")]>>)

Init ==
    /\ heap = DocInit.heap
    /\ lays = DocInit.lays
    /\ txts = DocInit.txts
    /\ doc = DocInit.doc
    /\ ret = Outcome("init", "", {}, "")
    /\ wire = NoWire
    /\ dec = NoDec
    /\ NoStorage

\* The layer object the document holds under a name.
HasLayer(name) == name \in DictNames(doc.layers)

LayerOf(name) == DictGet(doc.layers, name)

\* The live nodes of the document's layer of that name.
NodesOf(name) == IF HasLayer(name) THEN Range(LiveNodes(lays[LayerOf(name)])) ELSE {}

\* The Text object first added as "main" (spans are cut from it).
MainObj == 1

TokenInputs ==
    {EmptyDict,
     "text" :> TextSpanV(MainObj, 0, 2),
     "extra" :> IntV(1)} \cup
    {("text" :> TextSpanV(MainObj, 1, 3)) @@ ("next" :> NodeV(t)) : t \in NodesOf("token")}

ChunkInputs ==
    {EmptyDict, "parts" :> ListV(<<>>)} \cup
    {"head" :> NodeV(t) : t \in NodesOf("token")} \cup
    {("parts" :> ListV(<<t, u>>)) @@ ("range" :> NodeSpanV(t, u)) :
        t \in NodesOf("token"), u \in NodesOf("token")}

\* doc.layers[name].add(**kwargs)
DocAdd(name, inputs) ==
    /\ wire = NoWire
    /\ HasLayer(name)
    /\ Len(heap) < MaxDocNodes
    /\ \E kw \in inputs :
          LET r == add(Cur, LayerOf(name), kw)
          IN  /\ SetStore(r.st)
              /\ ret' = Outcome("add", r.exc, {}, "")
    /\ UNCHANGED <<codecVars, ioVars>>

DocAddToken == DocAdd("token", TokenInputs)

DocAddChunk == DocAdd("chunk", ChunkInputs)

\* layer.remove(node) for a node of one of the document's layers.
DocRemove ==
    /\ wire = NoWire
    /\ \E name \in DictNames(doc.layers) : \E n \in NodesOf(name) :
          LET r == remove(Cur, LayerOf(name), <<n>>)
          IN  /\ SetStore(r.st)
              /\ ret' = Outcome("remove", r.exc, {}, "")
    /\ UNCHANGED <<codecVars, ioVars>>

\* del doc.texts["main"]
DocDelText ==
    /\ wire = NoWire
    /\ "main" \in DictNames(doc.texts)
    /\ SetStore(del_text(Cur, "main"))
    /\ ret' = Outcome("del_text", "", {}, "")
    /\ UNCHANGED <<codecVars, ioVars>>

\* doc.remove_layer("token", fieldcascade)
DocRemoveLayer ==
    /\ wire = NoWire
    /\ HasLayer("token")
    /\ \E fieldcascade \in BOOLEAN :
          LET r == remove_layer(Cur, "token", fieldcascade)
          IN  /\ SetStore(r.st)
              /\ ret' = Outcome("remove_layer", r.exc, {}, "")
    /\ UNCHANGED <<codecVars, ioVars>>

AllLayers == {doc.layers[k].obj : k \in DOMAIN doc.layers}

\* The name a SchemaError gives: any of the missing ones (the sets of
\* compile are iterated in no fixed order).
Named(names) == IF names = {} THEN {""} ELSE names

\* doc.compile()
DocCompile ==
    /\ wire = NoWire
    /\ LET r == compile(Cur, FALSE, TRUE)
       IN  /\ SetStore(r.st)
           /\ \E nm \in Named(r.names) :
                 ret' = Outcome("compile", r.exc, IF r.exc = "" THEN AllLayers ELSE {}, nm)
    /\ UNCHANGED <<codecVars, ioVars>>

\* MsgpackCodec.encode(doc)
DocEncode ==
    /\ wire = NoWire
    /\ LET r == encode(Cur, FALSE, TRUE)
       IN  /\ SetStore(r.st)
           /\ wire' = r.wire
           /\ \E nm \in Named(r.names) :
                 ret' = Outcome("encode", r.exc, IF r.exc = "" THEN AllLayers ELSE {}, nm)
    /\ UNCHANGED <<dec, ioVars>>

\* MsgpackCodec.decode(data), or MsgpackDocument(data).document(layer), up to
\* the loop over the layers.
DecodeBegin ==
    /\ wire # NoWire
    /\ dec.phase = "idle"
    /\ \E layers \in {<<>>} \cup {<<wire.types[k]>> : k \in DOMAIN wire.types} :
          dec' = decode_begin(wire, layers)
    /\ UNCHANGED <<storeVars, wire, ioVars>>

\* One round of the loop over the layers.
DecodeLayer ==
    /\ dec.phase = "layers"
    /\ ~layers_materialized(dec)
    /\ dec' = decode_next_layer(wire, dec)
    /\ UNCHANGED <<storeVars, wire, ioVars>>

\* The call of commit_layers that ends decode and document.
CommitLayers ==
    /\ dec.phase = "layers"
    /\ layers_materialized(dec)
    /\ dec' = commit_layers(wire, dec)
    /\ UNCHANGED <<storeVars, wire, ioVars>>

Next ==
    \/ DocAddToken
    \/ DocAddChunk
    \/ DocRemove
    \/ DocDelText
    \/ DocRemoveLayer
    \/ DocCompile
    \/ DocEncode
    \/ DecodeBegin
    \/ DecodeLayer
    \/ CommitLayers

Spec == Init /\ [][Next]_vars

\* MsgpackCodec.decode(data) as one call.
RECURSIVE decode_layers(_, _)
decode_layers(w, d) ==
    IF d.phase # "layers" \/ layers_materialized(d) THEN d
    ELSE decode_layers(w, decode_next_layer(w, d))

decode(w) ==
    LET d == decode_layers(w, decode_begin(w, <<>>))
    IN  IF d.phase = "layers" THEN commit_layers(w, d) ELSE d

-----------------------------------------------------------------------------
(* Round trip *)

\* Where a node sits: the name of its layer and its position in the array.
PosOf(st, n) ==
    [layer |-> st.lays[st.heap[n].coll].name,
     at |-> CHOOSE i \in DOMAIN st.lays[st.heap[n].coll].nodes :
                st.lays[st.heap[n].coll].nodes[i] = n]

\* The value v of store S and the value w of store D are the same: scalars
\* are equal, spans have the same context and offsets, node references point
\* to the same position of the same layer.
SameValue(S, v, D, w) ==
    CASE "node" \in DOMAIN v ->
            "node" \in DOMAIN w /\ PosOf(S, v.node) = PosOf(D, w.node)
      [] "list" \in DOMAIN v ->
            /\ "list" \in DOMAIN w
            /\ Len(v.list) = Len(w.list)
            /\ \A i \in DOMAIN v.list : PosOf(S, v.list[i]) = PosOf(D, w.list[i])
      [] "left" \in DOMAIN v ->
            /\ "left" \in DOMAIN w
            /\ PosOf(S, v.left) = PosOf(D, w.left)
            /\ PosOf(S, v.right) = PosOf(D, w.right)
      [] "text" \in DOMAIN v ->
            /\ "text" \in DOMAIN w
            /\ S.txts[v.text].name = D.txts[w.text].name
            /\ v.start = w.start /\ v.stop = w.stop
      [] OTHER -> v = w

\* The layer of that name has in both stores the same number of nodes and
\* node by node the same present fields with the same values.
SameLayer(S, D, name) ==
    /\ name \in DictNames(S.doc.layers) /\ name \in DictNames(D.doc.layers)
    /\ LET a == S.lays[DictGet(S.doc.layers, name)]
           b == D.lays[DictGet(D.doc.layers, name)]
       IN  /\ a.num = b.num
           /\ Len(a.nodes) = Len(b.nodes)
           /\ \A i \in DOMAIN a.nodes :
                 /\ DOMAIN S.heap[a.nodes[i]].f = DOMAIN D.heap[b.nodes[i]].f
                 /\ \A k \in DOMAIN S.heap[a.nodes[i]].f :
                       SameValue(S, S.heap[a.nodes[i]].f[k], D, D.heap[b.nodes[i]].f[k])

SameTexts(S, D) ==
    /\ DictNames(S.doc.texts) = DictNames(D.doc.texts)
    /\ \A name \in DictNames(S.doc.texts) :
          S.txts[DictGet(S.doc.texts, name)].text = D.txts[DictGet(D.doc.texts, name)].text

\* C1: once decode(encode(doc)) has returned, the decoded document has the
\* texts of doc, and every layer of doc with the same number of nodes, the
\* same present fields on every node and the same values, references
\* pointing to the same positions; decode does not fail on what encode wrote.
RoundTrip ==
    /\ (dec.requested = <<>>) => dec.phase # "error"
    /\ (dec.phase = "done" /\ dec.requested = <<>>) =>
          /\ SameTexts(Cur, dec.st)
          /\ DictNames(doc.layers) = DictNames(dec.st.doc.layers)
          /\ \A name \in DictNames(doc.layers) : SameLayer(Cur, dec.st, name)

-----------------------------------------------------------------------------
(* Reference integrity *)

\* The nodes a reference value points to.
Referenced(v) ==
    CASE "node" \in DOMAIN v -> {v.node}
      [] "list" \in DOMAIN v -> Range(v.list)
      [] "left" \in DOMAIN v -> {v.left, v.right}
      [] OTHER -> {}

\* Some live node of a layer of the document holds, in a declared reference
\* field, a node that has been removed from its layer.
DanglingRef ==
    \E name \in DictNames(doc.layers) : \E n \in NodesOf(name) :
        \E i \in DOMAIN lays[LayerOf(name)].fields :
            /\ lays[LayerOf(name)].fields[i].type.typename \in RefTypenames
            /\ lays[LayerOf(name)].fields[i].name \in DOMAIN heap[n].f
            /\ \E m \in Referenced(heap[n].f[lays[LayerOf(name)].fields[i].name]) :
                  heap[m].coll = None

MissingLayers == referenced_layers(Cur) \ DictNames(doc.layers)

MissingTexts == referenced_texts(Cur) \ DictNames(doc.texts)

ValidationErrors == {"AssertionError", "SchemaError", "SchemaValidationError"}

\* C5: compile(), alone or as the first step of encode, raises a validation
\* error when a live node holds a reference to a removed node, and raises
\* SchemaError when a declared target layer or text context is not in the
\* document; the SchemaError names a missing target (a missing layer if there
\* is one, else a missing text context); encode then returns no bytes.
ReferenceIntegrity ==
    ret.op \in {"compile", "encode"} =>
        /\ DanglingRef => ret.exc \in ValidationErrors /\ wire = NoWire
        /\ MissingLayers # {} => ret.exc = "SchemaError" /\ ret.named \in MissingLayers
        /\ (MissingLayers = {} /\ MissingTexts # {}) =>
              ret.exc = "SchemaError" /\ ret.named \in MissingTexts
        /\ MissingLayers \cup MissingTexts # {} => wire = NoWire

\* compile() has raised on a reference to a token that was removed.
ReferenceIntegrityWitness ==
    /\ ret.op = "compile"
    /\ DanglingRef
    /\ MissingLayers \cup MissingTexts = {}
    /\ ret.exc = "AssertionError"

-----------------------------------------------------------------------------
(* Undeclared fields *)

\* Some live node of the document has a field its layer does not declare.
HasUndeclared ==
    \E name \in DictNames(doc.layers) : \E n \in NodesOf(name) :
        DOMAIN heap[n].f \ FieldNames(lays[LayerOf(name)].fields) # {}

\* Some live node of the document does not pass validate().
HasInvalid ==
    \E name \in DictNames(doc.layers) : \E n \in NodesOf(name) :
        validate(Cur, LayerOf(name), n) # ""

\* C6 as stated: encode with default options raises SchemaValidationError and
\* returns no bytes for every document with an undeclared field on a live node.
UndeclaredRaisesSchemaValidationError ==
    (ret.op = "encode" /\ HasUndeclared) =>
        ret.exc = "SchemaValidationError" /\ wire = NoWire

\* C6 amended: encode with default options raises and returns no bytes for
\* every document with an undeclared field on a live node; the error is
\* SchemaValidationError when no target is missing and every node validates,
\* else it may be the SchemaError or AssertionError of the earlier check.
UndeclaredRaises ==
    (ret.op = "encode" /\ HasUndeclared) =>
        /\ wire = NoWire
        /\ ret.exc \in ValidationErrors
        /\ (MissingLayers \cup MissingTexts = {} /\ ~HasInvalid) =>
              ret.exc = "SchemaValidationError"

\* encode has raised SchemaValidationError on a node with an undeclared field.
UndeclaredWitness ==
    /\ ret.op = "encode"
    /\ HasUndeclared
    /\ ret.exc = "SchemaValidationError"
    /\ wire = NoWire

-----------------------------------------------------------------------------
(* Partial decode *)

\* The reference fields of the requested layers target requested layers only.
ClosedRequest(w, layers) ==
    \A k \in DOMAIN w.types :
        w.types[k] \in Range(layers) =>
            \A i \in DOMAIN w.schema[k] :
                w.schema[k][i].type.typename \in RefTypenames =>
                    w.schema[k][i].type.arg \in Range(layers)

\* document(*layers) was called with a non-empty proper subset of the layers
\* of the encoded document that is closed under references, and has ended.
PartialDecodeEnded ==
    /\ dec.phase \in {"done", "error"}
    /\ dec.requested # <<>>
    /\ Range(dec.requested) \subseteq Range(wire.types)
    /\ Range(dec.requested) # Range(wire.types)
    /\ ClosedRequest(wire, dec.requested)

\* C9: document(L1..Lk) with a non-empty proper subset of the layers, closed
\* under references, returns a Document that holds the requested layers with
\* the nodes and field values of a full decode.
PartialDecode ==
    PartialDecodeEnded =>
        /\ dec.phase = "done"
        /\ \A name \in Range(dec.requested) : SameLayer(decode(wire).st, dec.st, name)

-----------------------------------------------------------------------------
(* Two-phase decode *)

\* Some node of the decoder holds a node reference instead of a placeholder.
SomeResolved ==
    \E n \in DOMAIN dec.st.heap : \E k \in DOMAIN dec.st.heap[n].f :
        Referenced(dec.st.heap[n].f[k]) # {}

\* The decoded value v of a reference field of type t is made of the nodes
\* that the decoded layer t.arg holds at the ids of the column entry.
ResolvedAsEncoded(D, t, entry, v) ==
    LET ns == D.lays[DictGet(D.doc.layers, t.arg)].nodes
    IN  CASE t.typename = "NODEREF" -> v = NodeV(At(ns, entry.int))
          [] t.typename = "NODEREF_MANY" ->
                v = ListV([i \in DOMAIN entry.ids |-> At(ns, entry.ids[i])])
          [] OTHER ->
                v = NodeSpanV(At(ns, entry.ids[1]), At(ns, entry.ids[1] + entry.ids[2]))

\* C10: no node holds a resolved reference before decode_layer has run on
\* every layer of the inventory; a full decode of an encoded document does
\* not fail; and when it has returned, every reference field with an entry
\* in its column, whatever the place of its target layer in the inventory,
\* holds the node(s) that the target layer has at the encoded ids.
TwoPhaseDecode ==
    /\ SomeResolved => Range(wire.types) \subseteq DOMAIN dec.all_nodes
    /\ (dec.requested = <<>>) => dec.phase # "error"
    /\ (dec.phase = "done") =>
          \A k \in DOMAIN wire.types : \A i \in DOMAIN wire.schema[k] :
              wire.schema[k][i].type.typename \in RefTypenames =>
                  \A j \in 1..wire.layers[k].num :
                      LET entry == wire.layers[k].cols[i].data[j]
                          n == dec.st.lays[DictGet(dec.st.doc.layers, wire.types[k])].nodes[j]
                          col == wire.schema[k][i].name
                      IN  IF entry = NoneV THEN col \notin DOMAIN dec.st.heap[n].f
                          ELSE /\ col \in DOMAIN dec.st.heap[n].f
                               /\ ResolvedAsEncoded(dec.st, wire.schema[k][i].type, entry,
                                                    dec.st.heap[n].f[col])

\* A decode has returned in which a field of the first layer of the inventory
\* refers to a node of the layer that comes after it.
TwoPhaseDecodeWitness ==
    /\ dec.phase = "done"
    /\ wire.types = <<"chunk", "token">>
    /\ \E n \in Range(dec.all_nodes["chunk"]) :
          /\ "head" \in DOMAIN dec.st.heap[n].f
          /\ dec.st.heap[dec.st.heap[n].f["head"].node].coll = DictGet(dec.st.doc.layers, "token")

-----------------------------------------------------------------------------
(* The boundary stream (storage.py, _BoundaryWriter and _BoundaryReader).   *)
(* A byte string is a sequence of integers 0..255; a stream position p is   *)
(* the number of bytes before it, so byte p of Python is element p + 1.     *)

MinBoundary == 12
MaxBoundary == 30

\* x >> b and x << b of Python for x >= 0
shr(x, b) == x \div (2 ^ b)
shl(x, b) == x * (2 ^ b)

\* (p >> boundary) << boundary == p
on_boundary(p, b) == shl(shr(p, b), b) = p

\* s[a:b] of Python for 0 <= a, 0 <= b
SliceGet(s, a, b) == SubSeq(s, Min(a, Len(s)) + 1, Min(b, Len(s)))

\* s[a:b] = src on a bytearray: the slice is replaced, the array may resize
SliceSet(s, a, b, src) ==
    LET lo == Min(a, Len(s))
        hi == Max(lo, Min(b, Len(s)))
    IN  SubSeq(s, 1, lo) \o src \o SubSeq(s, hi + 1, Len(s))

\* bytearray(n): n zero bytes
bytearray(n) == [i \in 1..n |-> 0]

\* The k-th byte (0 is the lowest) of m >= 0
ByteOf(m, k) == (m \div (256 ^ k)) % 256

\* struct.pack(">i", v): four bytes, big endian, two's complement
pack_i(v) ==
    IF v >= 0
    THEN <<ByteOf(v, 3), ByteOf(v, 2), ByteOf(v, 1), ByteOf(v, 0)>>
    ELSE <<255 - ByteOf(-(v + 1), 3), 255 - ByteOf(-(v + 1), 2),
           255 - ByteOf(-(v + 1), 1), 255 - ByteOf(-(v + 1), 0)>>

\* file.read(n) of the underlying stream at position pos: n < 0 reads to the end
io_read(file, pos, n) ==
    IF n < 0 THEN SubSeq(file, pos + 1, Len(file))
    ELSE SubSeq(file, pos + 1, Min(pos + n, Len(file)))

\* _BoundaryWriter.__init__: the header byte is the exponent
BoundaryWriter(boundary) ==
    IF MinBoundary <= boundary /\ boundary <= MaxBoundary
    THEN [built |-> TRUE, exc |-> "", boundary |-> boundary, written |-> 1,
          lastsplit |-> 1, seg |-> 0, out |-> <<boundary>>, closed |-> FALSE,
          nbytes |-> 0, calls |-> 0]
    ELSE [built |-> TRUE, exc |-> "ValueError", boundary |-> boundary, written |-> 0,
          lastsplit |-> 0, seg |-> 0, out |-> <<>>, closed |-> FALSE, nbytes |-> 0,
          calls |-> 0]

\* A marker that takes its delta from the start of the stream, whatever
\* split() recorded.
write_boundary_unsplit(w) ==
    IF ~on_boundary(w.written, w.boundary) THEN [w EXCEPT !.exc = "AssertionError"]
    ELSE LET delta == 1 - w.written
             deltapos == IF delta <= Int32Min THEN Int32Min ELSE delta
         IN  [w EXCEPT !.out = @ \o pack_i(deltapos),
                       !.written = @ + 4,
                       !.seg = @ + 1]

\* _BoundaryWriter._write_boundary
write_boundary(w) ==
    IF ~on_boundary(w.written, w.boundary) THEN [w EXCEPT !.exc = "AssertionError"]
    ELSE LET delta == w.lastsplit - w.written
             deltapos == IF delta <= Int32Min THEN Int32Min ELSE delta
         IN  [w EXCEPT !.out = @ \o pack_i(deltapos),
                       !.written = @ + 4,
                       !.seg = @ + 1]

\* the loop of _BoundaryWriter.write
RECURSIVE write_loop(_, _, _, _, _)
write_loop(w, data, pos, left, maxwrite) ==
    IF left <= 0 THEN w
    ELSE LET w1 == [w EXCEPT !.out = @ \o SliceGet(data, pos, pos + maxwrite),
                             !.written = @ + maxwrite]
             w2 == write_boundary(w1)
         IN  IF left - maxwrite <= 0 THEN w1
             ELSE IF w2.exc # "" THEN w2
             ELSE write_loop(w2, data, pos + maxwrite, left - maxwrite,
                             Min(shl(w2.seg + 1, w2.boundary) - w2.written,
                                 left - maxwrite))

\* _BoundaryWriter.write
write(w, data) ==
    LET w1 == write_loop(w, data, 0, Len(data),
                         Min(shl(w.seg + 1, w.boundary) - w.written, Len(data)))
    IN  [w1 EXCEPT !.nbytes = @ + Len(data)]

\* _BoundaryReader.__init__
BoundaryReader(inputio) ==
    [built |-> TRUE,
     exc |-> IF inputio[1] < MinBoundary \/ inputio[1] > MaxBoundary THEN "IOError" ELSE "",
     boundary |-> inputio[1], offset |-> 0, pos |-> 1,
     ret |-> <<>>, eof |-> FALSE, reads |-> 0]

\* the loop of _BoundaryReader.read; gives the bytearray and output_position
RECURSIVE read_loop(_, _, _, _, _, _, _)
read_loop(b, alldata, stop, output, output_position, rel_position, current_position) ==
    IF current_position >= stop THEN [output |-> output, position |-> output_position]
    ELSE LET max_read == Min(shl(shr(current_position, b) + 1, b), stop) - current_position
         IN  read_loop(b, alldata, stop,
                       SliceSet(output, output_position, output_position + max_read,
                                SliceGet(alldata, rel_position, rel_position + max_read)),
                       output_position + max_read,
                       rel_position + 4 + max_read,
                       current_position + max_read + 4)

\* The locals of _BoundaryReader.read before its loop
read_locals(r, file, n) ==
    LET b == r.boundary
        start0 == shr(r.offset + 1, b) * 4 + (r.offset + 1)
        count == IF n = -1 THEN -1
                 ELSE (shr(r.offset + n + 1, b) * 4 + (r.offset + n + 1)) - start0
        alldata == io_read(file, r.pos, count)
        stop == start0 + Len(alldata)
        start == IF on_boundary(start0, b) THEN start0 + 4 ELSE start0
        length0 == stop - start - (shr(stop, b) - shr(start, b)) * 4
    IN  [alldata |-> alldata, start |-> start, stop |-> stop,
         real_length |-> IF on_boundary(stop, b) THEN length0 - 4 ELSE length0]

\* _BoundaryReader.read
read(r, file, n) ==
    LET l == read_locals(r, file, n)
        r1 == [r EXCEPT !.pos = @ + Len(l.alldata), !.reads = @ + 1]
        res == read_loop(r.boundary, l.alldata, l.stop, bytearray(l.real_length),
                         0, 0, l.start)
    IN  IF Len(l.alldata) = 0 THEN [r1 EXCEPT !.eof = TRUE]
        ELSE IF l.real_length < 0 THEN [r1 EXCEPT !.exc = "ValueError"]
        ELSE IF res.position # l.real_length THEN [r1 EXCEPT !.exc = "AssertionError"]
        ELSE [r1 EXCEPT !.offset = @ + l.real_length, !.ret = @ \o res.output]

-----------------------------------------------------------------------------
(* SpecBoundary: a _BoundaryWriter is fed a byte sequence in several write   *)
(* calls and closed; a _BoundaryReader over the bytes it produced is then    *)
(* read with several read(n) calls.                                          *)

MaxWrites == 3       \* write() calls on the writer
MaxReads == 3        \* read() calls on the reader

\* The exponents the streams are built with.
Exponents == {MinBoundary}

\* The n bytes of the written sequence from logical position n0 on: every
\* byte is non-zero and the sequence has no period of four.
Data(n0, n) == [i \in 1..n |-> ((n0 + i - 1) % 251) + 1]

\* Sizes of the write calls: with them the written length is below 2^b, ends
\* the physical stream on a multiple of 2^b, or crosses one or more markers.
WriteSizes(b) == {1, (2 ^ b) - 4, (2 ^ b) - 1}

\* Sizes of the read calls.
ReadSizes(b) == {-1, 1, (2 ^ b) - 4, (2 ^ b) - 1}

InitBoundary ==
    /\ heap = <<>> /\ lays = <<>> /\ txts = <<>> /\ doc = Document
    /\ ret = Outcome("init", "", {}, "")
    /\ wire = NoWire /\ dec = NoDec
    /\ \E b \in Exponents : bw = BoundaryWriter(b)
    /\ br = Unbuilt /\ cw = Unbuilt /\ cr = Unbuilt /\ findex = Unbuilt /\ pool = Unbuilt

BWrite ==
    /\ bw.exc = "" /\ ~bw.closed /\ bw.calls < MaxWrites
    /\ \E n \in WriteSizes(bw.boundary) :
          bw' = [write(bw, Data(bw.nbytes, n)) EXCEPT !.calls = @ + 1]
    /\ UNCHANGED <<storeVars, codecVars, br, cw, cr, findex, pool>>

\* _BoundaryWriter.close
BWriterClose ==
    /\ ~bw.closed
    /\ bw' = [bw EXCEPT !.closed = TRUE]
    /\ UNCHANGED <<storeVars, codecVars, br, cw, cr, findex, pool>>

BOpen ==
    /\ bw.closed /\ bw.exc = "" /\ br = Unbuilt
    /\ br' = BoundaryReader(bw.out)
    /\ UNCHANGED <<storeVars, codecVars, bw, cw, cr, findex, pool>>

BRead ==
    /\ br.built /\ br.exc = "" /\ ~br.eof /\ br.reads < MaxReads
    /\ \E n \in ReadSizes(br.boundary) : br' = read(br, bw.out, n)
    /\ UNCHANGED <<storeVars, codecVars, bw, cw, cr, findex, pool>>

NextBoundary ==
    \/ BWrite
    \/ BWriterClose
    \/ BOpen
    \/ BRead

SpecBoundary == InitBoundary /\ [][NextBoundary]_vars

\* C2: whatever was written through the writer, in whatever write calls, the
\* reader raises nothing, the bytes its read calls returned so far are the
\* first bytes of the written sequence in order, and when a read reports the
\* end of the stream all the written bytes have been returned.
BoundaryExact ==
    br.built =>
        /\ br.exc = ""
        /\ Len(br.ret) <= bw.nbytes
        /\ br.ret = Data(0, Len(br.ret))
        /\ (br.eof => Len(br.ret) = bw.nbytes)

-----------------------------------------------------------------------------
(* The container (storage.py, MsgpackDocumentWriter, MsgpackDocumentReader,  *)
(* MsgpackDocumentBlock).  A byte stream is a sequence of items, each one    *)
(* msgpack object (or the four magic bytes) with its length in bytes; a      *)
(* position in the stream is a number of bytes.  An encoded document is a    *)
(* byte string that carries its properties: [props, size].                   *)

\* The bytes packer.pack(obj) writes: one item.
Packed(kind, size, val) == [kind |-> kind, size |-> size, val |-> val]

\* msgpack bin: a header of 2, 3 or 5 bytes, then the payload
pack_bin(n, val) ==
    Packed("bin", n + (IF n < 256 THEN 2 ELSE IF n < 65536 THEN 3 ELSE 5), val)

\* msgpack fixstr, positive fixint, bool
pack_str(name, n) == Packed("str", n + 1, name)
pack_int(i) == Packed("int", 1, i)
pack_bool(v) == Packed("bool", 1, v)

\* The length in bytes of the first n items of a stream
RECURSIVE tell(_, _)
tell(items, n) == IF n = 0 THEN 0 ELSE tell(items, n - 1) + items[n].size

\* BytesIO.getvalue() length
StreamLen(items) == tell(items, Len(items))

\* next(unpacker, None) of an Unpacker that stands at byte p of a stream: the
\* index of the item that starts there, 0 (None) at the end of the stream,
\* -1 when p is inside an item and the bytes there are not the object written.
unpack_next(items, p) ==
    IF p >= StreamLen(items) THEN 0
    ELSE IF \E i \in 1..Len(items) : tell(items, i - 1) = p
         THEN CHOOSE i \in 1..Len(items) : tell(items, i - 1) = p
         ELSE -1

\* BlockCodecs: the names, the length of "name" and what compress gives
CodecNames == {"none", "zip", "zipsq"}

CodecNameLen(name) == IF name = "none" THEN 4 ELSE IF name = "zip" THEN 3 ELSE 5

\* zlib.compress of a small buffer: 2 header bytes, a stored block, 4 check bytes
ZlibOverhead == 11

\* codec[1]: the buffer a block is written as, [codec, raw, size]
codec_encode(name, raw) ==
    [codec |-> name, raw |-> raw,
     size |-> IF name = "none" THEN StreamLen(raw)
              ELSE IF name = "zip" THEN StreamLen(raw) + ZlibOverhead
              ELSE StreamLen(raw) + 2 * ZlibOverhead]

\* codec[2]: zlib.decompress raises on what zlib.compress did not write
codec_decode(name, buf) ==
    IF name = buf.codec THEN [exc |-> "", raw |-> buf.raw]
    ELSE [exc |-> "zlib.error", raw |-> <<>>]

\* MsgpackDocumentWriter.__init__; written is the history of write() calls
MsgpackDocumentWriter(num_docs_per_block, codec_name) ==
    [built |-> TRUE, exc |-> "",
     out |-> <<Packed("magic", 4, "Dmf1"),
               pack_str(codec_name, CodecNameLen(codec_name)),
               pack_int(num_docs_per_block),
               pack_bool(FALSE)>>,
     closed |-> FALSE,
     currentblock |-> <<>>, current_block_count |-> 0,
     codec_name |-> codec_name, num_docs_per_block |-> num_docs_per_block,
     written |-> <<>>]

\* MsgpackDocumentWriter.close without its flush
close_without_flush(w) == [w EXCEPT !.closed = TRUE]

\* A flush that writes the buffer as a block whether it holds documents or
\* not.
flush_always(w) ==
    IF w.closed THEN [w EXCEPT !.exc = "ValueError"]
    ELSE [w EXCEPT !.out = Append(@, pack_bin(codec_encode(w.codec_name, w.currentblock).size,
                                              codec_encode(w.codec_name, w.currentblock))),
                   !.currentblock = <<>>,
                   !.current_block_count = 0]

\* MsgpackDocumentWriter.flush
flush(w) ==
    IF w.current_block_count > 0
    THEN IF w.closed THEN [w EXCEPT !.exc = "ValueError"]
         ELSE [w EXCEPT !.out = Append(@, pack_bin(codec_encode(w.codec_name, w.currentblock).size,
                                                   codec_encode(w.codec_name, w.currentblock))),
                        !.currentblock = <<>>,
                        !.current_block_count = 0]
    ELSE w

\* MsgpackDocumentWriter.write of a MsgpackDocument (doc.rawdata.getvalue())
cwrite(w, data) ==
    LET w1 == [w EXCEPT !.currentblock = Append(@, pack_bin(data.size, data)),
                        !.current_block_count = @ + 1,
                        !.written = Append(@, data)]
    IN  IF w1.current_block_count = w1.num_docs_per_block THEN flush(w1) ELSE w1

\* MsgpackDocumentWriter.close
close(w) == IF flush(w).exc # "" THEN flush(w) ELSE [flush(w) EXCEPT !.closed = TRUE]

\* self.block = None
NoBlock == [some |-> FALSE]

\* MsgpackDocumentBlock.__init__: the position in the file, the decoded
\* buffer, _dataread and the bytes its unpacker has consumed (unpacker.tell())
MsgpackDocumentBlock(position, rawbuffer) ==
    [some |-> TRUE, position |-> position, data |-> rawbuffer,
     dataread |-> 0, consumed |-> 0]

\* MsgpackDocumentBlock.tell
block_tell(blk) == blk.consumed + blk.dataread

\* MsgpackDocumentBlock.seek
block_seek(blk, position) == [blk EXCEPT !.dataread = position, !.consumed = 0]

\* next(block._unpacker, None): the block after it and the document read,
\* with the reference made of blockpos and the block position pos
block_unpack(blk, pos) ==
    LET i == unpack_next(blk.data, block_tell(blk))
    IN  IF i = 0 THEN [blk |-> blk, exc |-> "", none |-> TRUE]
        ELSE IF i < 0 THEN [blk |-> blk, exc |-> "UnpackException", none |-> TRUE]
        ELSE [blk |-> [blk EXCEPT !.consumed = @ + blk.data[i].size],
              exc |-> "", none |-> FALSE,
              doc |-> [data |-> blk.data[i].val, ref |-> <<pos, block_tell(blk)>>]]

\* MsgpackDocumentBlock.__next__
block_next(blk) == block_unpack(blk, blk.position)

\* MsgpackDocumentReader.__init__ over the bytes of a file.  The unpacker has
\* buffered the whole of a short file when inputio.tell() is asked.  reads
\* counts the blocks taken from the stream, yielded is the history of the
\* documents __next__ returned.
MsgpackDocumentReader(file) ==
    [built |-> TRUE,
     exc |-> IF file[1].val # "Dmf1" THEN "IOError"
             ELSE IF file[2].val \notin CodecNames THEN "ValueError"
             ELSE IF file[4].val THEN "NotImplementedError"
             ELSE "",
     codec |-> file[2].val, num_doc_per_block |-> file[3].val,
     dataread |-> 4,
     consumed |-> file[2].size + file[3].size + file[4].size,
     block |-> NoBlock,
     lastblockpos |-> StreamLen(file),
     reads |-> 0, yielded |-> <<>>, done |-> FALSE]

\* MsgpackDocumentReader.seek
seek(r, position) == [r EXCEPT !.block = NoBlock, !.dataread = position, !.consumed = 0]

\* MsgpackDocumentReader.readblock: the reader after it and the block (or None)
readblock(r, file) ==
    LET pos == r.consumed + r.dataread
        i == unpack_next(file, pos)
        r1 == [r EXCEPT !.lastblockpos = pos]
    IN  IF i = 0 THEN [r |-> r1, blk |-> NoBlock]
        ELSE IF i < 0 THEN [r |-> [r1 EXCEPT !.exc = "UnpackException"], blk |-> NoBlock]
        ELSE IF file[i].kind # "bin"
             THEN [r |-> [r1 EXCEPT !.exc = "TypeError", !.consumed = @ + file[i].size],
                   blk |-> NoBlock]
        ELSE IF codec_decode(r.codec, file[i].val).exc # ""
             THEN [r |-> [r1 EXCEPT !.exc = codec_decode(r.codec, file[i].val).exc,
                                    !.consumed = @ + file[i].size],
                   blk |-> NoBlock]
        ELSE [r |-> [r1 EXCEPT !.consumed = @ + file[i].size, !.reads = @ + 1],
              blk |-> MsgpackDocumentBlock(pos, codec_decode(r.codec, file[i].val).raw)]

\* The result of __next__: the reader and the document returned, or
\* StopIteration (stop) or an exception (r.exc)
Yield(r, d) == [r |-> r, stop |-> FALSE, doc |-> d]
Stop(r) == [r |-> r, stop |-> TRUE]

\* The `while self.block is None` loop of MsgpackDocumentReader.__next__
RECURSIVE next_scan(_, _)
next_scan(r, file) ==
    LET rb == readblock(r, file)
        u == block_unpack(rb.blk, rb.r.lastblockpos)
    IN  IF rb.r.exc # "" THEN Stop(rb.r)
        ELSE IF ~rb.blk.some THEN Stop(rb.r)
        ELSE IF u.exc # "" THEN Stop([rb.r EXCEPT !.block = rb.blk, !.exc = u.exc])
        ELSE IF u.none THEN next_scan([rb.r EXCEPT !.block = NoBlock], file)
        ELSE Yield([rb.r EXCEPT !.block = u.blk], u.doc)

\* MsgpackDocumentReader.__next__
reader_next(r, file) ==
    LET u == block_unpack(r.block, r.lastblockpos)
    IN  IF ~r.block.some THEN next_scan(r, file)
        ELSE IF u.exc # "" THEN Stop([r EXCEPT !.exc = u.exc])
        ELSE IF u.none THEN next_scan([r EXCEPT !.block = NoBlock], file)
        ELSE Yield([r EXCEPT !.block = u.blk], u.doc)

\* MsgpackDocumentReader.get with no look at the position of the cached block
get_any_cached(r, file, ref) ==
    LET rb == readblock(seek(r, ref[1]), file)
        r1 == IF ~r.block.some THEN [rb.r EXCEPT !.block = rb.blk] ELSE r
        u == block_next(block_seek(r1.block, ref[2]))
    IN  IF r1.exc # "" THEN Stop(r1)
        ELSE IF ~r1.block.some THEN Stop([r1 EXCEPT !.exc = "AttributeError"])
        ELSE IF u.exc # "" THEN Stop([r1 EXCEPT !.exc = u.exc])
        ELSE IF u.none THEN Stop([r1 EXCEPT !.block = u.blk])
        ELSE Yield([r1 EXCEPT !.block = u.blk], u.doc)

\* MsgpackDocumentReader.get
get(r, file, ref) ==
    LET rb == readblock(seek(r, ref[1]), file)
        r1 == IF ~r.block.some \/ r.block.position # ref[1]
              THEN [rb.r EXCEPT !.block = rb.blk] ELSE r
        u == block_next(block_seek(r1.block, ref[2]))
    IN  IF r1.exc # "" THEN Stop(r1)
        ELSE IF ~r1.block.some THEN Stop([r1 EXCEPT !.exc = "AttributeError"])
        ELSE IF u.exc # "" THEN Stop([r1 EXCEPT !.exc = u.exc])
        ELSE IF u.none THEN Stop([r1 EXCEPT !.block = u.blk])
        ELSE Yield([r1 EXCEPT !.block = u.blk], u.doc)

-----------------------------------------------------------------------------
(* The file index (storage.py, DocumentFileIndex) *)

\* `for doc in block`: the documents of a block from where it stands
RECURSIVE block_documents(_, _)
block_documents(blk, acc) ==
    LET u == block_next(blk)
    IN  IF u.exc # "" THEN [docs |-> acc, exc |-> u.exc]
        ELSE IF u.none THEN [docs |-> acc, exc |-> ""]
        ELSE block_documents(u.blk, Append(acc, u.doc))

\* MsgpackDocumentReader.blocks and the documents of every block
RECURSIVE blocks(_, _, _)
blocks(r, file, acc) ==
    LET rb == readblock(r, file)
        ds == block_documents(rb.blk, acc)
    IN  IF rb.r.exc # "" THEN [docs |-> acc, exc |-> rb.r.exc]
        ELSE IF ~rb.blk.some THEN [docs |-> acc, exc |-> ""]
        ELSE IF ds.exc # "" THEN ds
        ELSE blocks(rb.r, file, ds.docs)

\* property2docis[prop].setdefault(value, []).append(docid)
setdefault_append(p2d, prop, value, docid) ==
    [p2d EXCEPT ![prop] =
        DictSet(p2d[prop], value,
                (IF value \in DOMAIN p2d[prop] THEN p2d[prop][value] ELSE <<>>) \o <<docid>>)]

\* `for prop in properties` of build, for one document
RECURSIVE index_props(_, _, _, _)
index_props(p2d, keys, props, docid) ==
    IF keys = <<>> THEN p2d
    ELSE index_props(IF Head(keys) \in DOMAIN props
                     THEN setdefault_append(p2d, Head(keys), props[Head(keys)], docid)
                     ELSE p2d,
                     Tail(keys), props, docid)

\* the enumerate loop of build: docid counts from 0
RECURSIVE index_docs(_, _, _, _)
index_docs(p2d, keys, docs, docid) ==
    IF docid >= Len(docs) THEN p2d
    ELSE index_docs(index_props(p2d, keys, docs[docid + 1].data.props, docid),
                    keys, docs, docid + 1)

\* DocumentFileIndex.build(path, *properties) and DocumentFileIndex.__init__
build(file, keys) ==
    LET scan == blocks(MsgpackDocumentReader(file), file, <<>>)
    IN  [built |-> TRUE, exc |-> scan.exc, keys |-> keys,
         properties |-> index_docs([k \in Range(keys) |-> EmptyDict], keys, scan.docs, 0),
         docrefs |-> [i \in 1..Len(scan.docs) |-> scan.docs[i].ref],
         searched |-> FALSE, conds |-> EmptyDict, hits |-> <<>>]

\* set(self.properties.get(k, {}).get(v, []))
hits_of(index, k, v) ==
    IF k \in DOMAIN index.properties /\ v \in DOMAIN index.properties[k]
    THEN Range(index.properties[k][v])
    ELSE {}

\* The docids that match any one of the conditions
results_any(index, conds) ==
    UNION {hits_of(index, k, conds[k]) : k \in DOMAIN conds}

\* all_hits[0] with intersection_update of the others
results_all(index, conds) ==
    {d \in UNION {hits_of(index, k, conds[k]) : k \in DOMAIN conds} :
        \A k \in DOMAIN conds : d \in hits_of(index, k, conds[k])}

\* The loop of search over sorted(results): the documents it yields
RECURSIVE search_loop(_, _, _, _, _, _)
search_loop(index, file, r, lastblk, docids, acc) ==
    IF docids = <<>> THEN [hits |-> acc, exc |-> ""]
    ELSE LET ref == index.docrefs[Head(docids) + 1]
             fresh == ~lastblk.some \/ lastblk.position # ref[1]
             rb == readblock(seek(r, ref[1]), file)
             r1 == IF fresh THEN rb.r ELSE r
             blk == IF fresh THEN rb.blk ELSE lastblk
             u == block_next(block_seek(blk, ref[2]))
         IN  IF r1.exc # "" \/ ~blk.some THEN [hits |-> acc, exc |-> "IOError"]
             ELSE IF u.exc # "" \/ u.none THEN [hits |-> acc, exc |-> "IOError"]
             ELSE search_loop(index, file, r1, u.blk, Tail(docids), Append(acc, u.doc.data))

\* list(DocumentFileIndex.search(conds))
search(index, file, conds) ==
    LET found == IF DOMAIN conds = {} THEN [hits |-> <<>>, exc |-> ""]
                 ELSE search_loop(index, file, MsgpackDocumentReader(file), NoBlock,
                                  sorted(results_all(index, conds)), <<>>)
    IN  [index EXCEPT !.searched = TRUE, !.conds = conds,
                      !.hits = found.hits, !.exc = found.exc]

-----------------------------------------------------------------------------
(* SpecContainer: documents are written to a container file through a       *)
(* MsgpackDocumentWriter with flushes in between, the writer is closed, and  *)
(* the file is then either read by a MsgpackDocumentReader (iteration, then  *)
(* get() of references it reported) or indexed and searched.                 *)

MaxDocs == 3         \* write() calls on the container writer

\* num_docs_per_block of the writers
BlockSizes == {1, 2}

\* The encoded documents written: their properties and their length in bytes
Corpus ==
    {[props |-> ("k" :> 1), size |-> 3],
     [props |-> ("k" :> 1 @@ "j" :> 1), size |-> 5],
     [props |-> ("k" :> 2 @@ "j" :> 1), size |-> 4]}

\* The property lists an index is built with
IndexKeys == {<<"k">>, <<"k", "j">>}

\* The conditions searched for
Conditions ==
    {("k" :> 1), ("k" :> 2), ("k" :> 3), ("j" :> 1), ("k" :> 1 @@ "j" :> 1)}

\* No get() has been called on the reader
NoGet == [some |-> FALSE]

InitContainer ==
    /\ heap = <<>> /\ lays = <<>> /\ txts = <<>> /\ doc = Document
    /\ ret = Outcome("init", "", {}, "")
    /\ wire = NoWire /\ dec = NoDec
    /\ bw = Unbuilt /\ br = Unbuilt
    /\ \E n \in BlockSizes, c \in CodecNames : cw = MsgpackDocumentWriter(n, c)
    /\ cr = Unbuilt /\ findex = Unbuilt /\ pool = Unbuilt

CWrite ==
    /\ ~cw.closed /\ cw.exc = "" /\ Len(cw.written) < MaxDocs
    /\ \E d \in Corpus : cw' = cwrite(cw, d)
    /\ UNCHANGED <<storeVars, codecVars, bw, br, cr, findex, pool>>

CFlush ==
    /\ ~cw.closed /\ cw.exc = ""
    /\ cw' = flush(cw)
    /\ UNCHANGED <<storeVars, codecVars, bw, br, cr, findex, pool>>

CClose ==
    /\ ~cw.closed /\ cw.exc = ""
    /\ cw' = close(cw)
    /\ UNCHANGED <<storeVars, codecVars, bw, br, cr, findex, pool>>

\* MsgpackDocumentIO.read of the closed file
ROpen ==
    /\ cw.closed /\ cr = Unbuilt /\ findex = Unbuilt
    /\ cr' = [built |-> TRUE, r |-> MsgpackDocumentReader(cw.out), got |-> NoGet]
    /\ UNCHANGED <<storeVars, codecVars, bw, br, cw, findex, pool>>

\* next(reader)
RNext ==
    /\ cr.built /\ cr.r.exc = "" /\ ~cr.r.done /\ ~cr.got.some
    /\ LET n == reader_next([cr.r EXCEPT !.reads = 0], cw.out)
       IN  cr' = [cr EXCEPT !.r = IF n.stop THEN [n.r EXCEPT !.done = TRUE]
                                  ELSE [n.r EXCEPT !.yielded = Append(@, n.doc)]]
    /\ UNCHANGED <<storeVars, codecVars, bw, br, cw, findex, pool>>

\* reader.get(ref) for a reference the iteration reported; got keeps what the
\* call returned, which document was asked for and whether the block of the
\* reference was the cached one when the call was made
RGet ==
    /\ cr.built /\ cr.r.exc = ""
    /\ \E i \in 1..Len(cr.r.yielded) :
          LET ref == cr.r.yielded[i].ref
              g == get([cr.r EXCEPT !.reads = 0], cw.out, ref)
          IN  cr' = [cr EXCEPT !.r = g.r,
                               !.got = [some |-> TRUE, want |-> i, stop |-> g.stop,
                                        doc |-> IF g.stop THEN cr.r.yielded[i] ELSE g.doc,
                                        cached |-> cr.r.block.some /\ cr.r.block.position = ref[1]]]
    /\ UNCHANGED <<storeVars, codecVars, bw, br, cw, findex, pool>>

\* DocumentFileIndex.build of the closed file
IBuild ==
    /\ cw.closed /\ cr = Unbuilt /\ findex = Unbuilt
    /\ \E keys \in IndexKeys : findex' = build(cw.out, keys)
    /\ UNCHANGED <<storeVars, codecVars, bw, br, cw, cr, pool>>

\* index.search(conds), read to its end
ISearch ==
    /\ findex.built /\ findex.exc = ""
    /\ \E conds \in Conditions : findex' = search(findex, cw.out, conds)
    /\ UNCHANGED <<storeVars, codecVars, bw, br, cw, cr, pool>>

NextContainer ==
    \/ CWrite
    \/ CFlush
    \/ CClose
    \/ ROpen
    \/ RNext
    \/ RGet
    \/ IBuild
    \/ ISearch

SpecContainer == InitContainer /\ [][NextContainer]_vars

\* The documents a container file holds, block after block, as written bytes
RECURSIVE FileDocs(_, _)
FileDocs(file, n) ==
    IF n > Len(file) THEN <<>>
    ELSE [i \in 1..Len(file[n].val.raw) |-> file[n].val.raw[i].val] \o FileDocs(file, n + 1)

\* The documents the iteration has returned
Yielded == [i \in 1..Len(cr.r.yielded) |-> cr.r.yielded[i].data]

\* C7: once close() has returned, the file holds every written document in
\* write order and nothing is left in the writer's buffer (close flushed
\* before it closed the stream); a reader iterating over the file has so far
\* returned the first written documents in write order, raises nothing, and
\* when it stops it has returned every written document exactly once.
ContainerPersistence ==
    /\ (cw.built /\ cw.closed) =>
          /\ cw.exc = ""
          /\ cw.current_block_count = 0
          /\ FileDocs(cw.out, 5) = cw.written
    /\ (cr.built /\ ~cr.got.some) =>
          /\ cr.r.exc = ""
          /\ Len(Yielded) <= Len(cw.written)
          /\ Yielded = SubSeq(cw.written, 1, Len(Yielded))
          /\ (cr.r.done => Len(Yielded) = Len(cw.written))

\* Three documents written two to a block, the last block flushed by close(),
\* and read to the end.
ContainerPersistenceWitness ==
    /\ cr.built /\ ~cr.got.some /\ cr.r.done
    /\ cw.num_docs_per_block = 2
    /\ Len(cw.written) = 3
    /\ Len(cw.out) = 6
    /\ Len(Yielded) = 3

\* C8: get(ref) with the reference the iteration reported for a document
\* returns that document with that reference and raises nothing, whatever
\* block the reader had cached; when the block of the reference was the
\* cached one, the call has taken no block from the stream.
DocumentReference ==
    (cr.built /\ cr.got.some) =>
        /\ cr.r.exc = ""
        /\ ~cr.got.stop
        /\ cr.got.doc = cr.r.yielded[cr.got.want]
        /\ cr.got.doc.data = cw.written[cr.got.want]
        /\ (cr.got.cached => cr.r.reads = 0)

\* A get() of the first document while the reader had a later block cached,
\* which took the first block from the stream again.
DocumentReferenceWitness ==
    /\ cr.built /\ cr.got.some /\ ~cr.got.stop
    /\ ~cr.got.cached
    /\ cr.got.want = 1
    /\ cr.r.reads = 1
    /\ Len(cr.r.yielded) >= 3
    /\ cr.r.block.position = cr.r.yielded[1].ref[1]

\* A document satisfies every condition
Satisfies(d, conds) ==
    \A k \in DOMAIN conds : k \in DOMAIN d.props /\ d.props[k] = conds[k]

\* The positions (from 0) of the written documents that satisfy the conditions
Satisfying(conds) ==
    sorted({i - 1 : i \in {j \in 1..Len(cw.written) : Satisfies(cw.written[j], conds)}})

\* The document read by position: get() of a new reader with the reference
ByPosition(ref) == get(MsgpackDocumentReader(cw.out), cw.out, ref).doc.data

\* C3: an index built over the closed file holds one reference per document;
\* a search for conditions on indexed keys raises nothing and yields the
\* written documents that satisfy all the conditions, each once and in
\* container order, each equal to the document read by position with the
\* reference the index holds for it.
IndexCorrectness ==
    /\ findex.built =>
          /\ findex.exc = ""
          /\ Len(findex.docrefs) = Len(cw.written)
    /\ (findex.built /\ findex.searched /\ DOMAIN findex.conds \subseteq Range(findex.keys)) =>
          /\ Len(findex.hits) = Len(Satisfying(findex.conds))
          /\ \A n \in 1..Len(findex.hits) :
                /\ findex.hits[n] = cw.written[Satisfying(findex.conds)[n] + 1]
                /\ findex.hits[n] = ByPosition(findex.docrefs[Satisfying(findex.conds)[n] + 1])

\* A search on two indexed keys that yields some of the documents, from two
\* different blocks, and leaves out a document that satisfies only one of the
\* two conditions.
IndexCorrectnessWitness ==
    /\ findex.built /\ findex.searched
    /\ DOMAIN findex.conds = {"k", "j"}
    /\ Len(findex.hits) = 2
    /\ Len(cw.written) = 3
    /\ findex.docrefs[Satisfying(findex.conds)[1] + 1][1]
          # findex.docrefs[Satisfying(findex.conds)[2] + 1][1]

-----------------------------------------------------------------------------
(* SpecEncode: a document that already holds tokens and chunks referring to  *)
(* them; nodes are removed and added, then the document is encoded.          *)

MaxEncNew == 1       \* Node objects created per run on top of the initial ones

\* Three tokens, a chunk over the second and third and a chunk whose head is
\* the third.
EncInit ==
    LET t1 == add(DocInit, 2, ("pos" :> IntV(1)) @@ ("text" :> TextSpanV(MainObj, 0, 1))).st
        t2 == add(t1, 2, ("pos" :> IntV(2)) @@ ("text" :> TextSpanV(MainObj, 1, 2))).st
        t3 == add(t2, 2, ("pos" :> IntV(3)) @@ ("next" :> NodeV(2))).st
        c1 == add(t3, 1, ("head" :> NodeV(2)) @@ ("parts" :> ListV(<<2, 3>>))
                           @@ ("range" :> NodeSpanV(2, 3))).st
    IN  add(c1, 1, "head" :> NodeV(3)).st

InitEncode ==
    /\ heap = EncInit.heap
    /\ lays = EncInit.lays
    /\ txts = EncInit.txts
    /\ doc = EncInit.doc
    /\ ret = Outcome("init", "", {}, "")
    /\ wire = NoWire
    /\ dec = NoDec
    /\ NoStorage

\* doc.layers[name].add(**kwargs)
EncAdd ==
    /\ wire = NoWire
    /\ Len(heap) < Len(EncInit.heap) + MaxEncNew
    /\ \E name \in {"token", "chunk"} :
       \E kw \in IF name = "token" THEN TokenInputs ELSE ChunkInputs :
          LET r == add(Cur, LayerOf(name), kw)
          IN  /\ SetStore(r.st)
              /\ ret' = Outcome("add", r.exc, {}, "")
    /\ UNCHANGED <<codecVars, ioVars>>

NextEncode ==
    \/ EncAdd
    \/ DocRemove
    \/ DocEncode

SpecEncode == InitEncode /\ [][NextEncode]_vars

\* A node removed before the encode whose slot preceded a live node that a
\* field of another node refers to: the encode has compacted the layer and
\* given the referred node a new id.
RenumberedReference ==
    \E n \in DOMAIN heap, m \in DOMAIN heap, h \in DOMAIN heap :
        /\ heap[n].coll = None
        /\ heap[m].coll # None /\ heap[h].coll # None
        /\ n < m
        /\ heap[m].id < m - 1
        /\ "head" \in DOMAIN heap[h].f
        /\ heap[h].f["head"] = NodeV(m)

\* C11: once encode has returned bytes for the document, a second encode of
\* the document as the first call left it returns and returns the same bytes.
EncodeIdempotent ==
    wire # NoWire =>
        /\ encode(Cur, FALSE, TRUE).exc = ""
        /\ encode(Cur, FALSE, TRUE).wire = wire

\* The first encode was the one that compacted a layer with a tombstone and
\* renumbered a node that a reference points to.
EncodeIdempotentWitness ==
    /\ wire # NoWire
    /\ ret.op = "encode"
    /\ RenumberedReference

-----------------------------------------------------------------------------
(* Malformed documents and container files under decode and read *)

\* The most special-encoding flags set in one document
MaxSpecial == 1

\* Magic bytes that are not the expected ones
BadMagics == {"DM_2", "Dmf2"}

\* A codec name outside _Name2Codec
BadCodecs == {"lz4"}

\* The file of a writer that wrote the listed documents and was closed
RECURSIVE written_file(_, _)
written_file(w, docs) ==
    IF docs = <<>> THEN close(w) ELSE written_file(cwrite(w, Head(docs)), Tail(docs))

\* No layer of the documents has more fields
MaxColumns == 3

\* The columns of the encoded document whose special-encoding flag is set
SpecialColumns(w) ==
    {c \in (DOMAIN w.layers) \X (1..MaxColumns) :
        c[2] \in DOMAIN w.layers[c[1]].cols /\ w.layers[c[1]].cols[c[2]].special}

\* A document of two layers encoded without error, and a closed container file
InitFormat ==
    /\ heap = encode(EncInit, FALSE, TRUE).st.heap
    /\ lays = encode(EncInit, FALSE, TRUE).st.lays
    /\ txts = encode(EncInit, FALSE, TRUE).st.txts
    /\ doc = encode(EncInit, FALSE, TRUE).st.doc
    /\ ret = Outcome("encode", encode(EncInit, FALSE, TRUE).exc, {}, "")
    /\ wire = encode(EncInit, FALSE, TRUE).wire
    /\ dec = NoDec
    /\ bw = Unbuilt /\ br = Unbuilt
    /\ cw = written_file(MsgpackDocumentWriter(2, "zip"),
                         <<CHOOSE d \in Corpus : d.size = 3, CHOOSE d \in Corpus : d.size = 5>>)
    /\ cr = Unbuilt /\ findex = Unbuilt /\ pool = Unbuilt

\* The magic of the document bytes is overwritten
FormatMagic ==
    /\ dec.phase = "idle" /\ wire.magic = "DM_1"
    /\ \E m \in BadMagics : wire' = [wire EXCEPT !.magic = m]
    /\ UNCHANGED <<storeVars, dec, ioVars>>

\* The special-encoding flag of one column of the document bytes is set
FormatSpecial ==
    /\ dec.phase = "idle" /\ Cardinality(SpecialColumns(wire)) < MaxSpecial
    /\ \E k \in DOMAIN wire.layers : \E i \in DOMAIN wire.layers[k].cols :
          /\ ~wire.layers[k].cols[i].special
          /\ wire' = [wire EXCEPT !.layers[k].cols[i].special = TRUE]
    /\ UNCHANGED <<storeVars, dec, ioVars>>

\* MsgpackCodec.decode_layer(unpacker, doc, typename, text2offsets,
\* layerschema, field) for the next layer; ret names the field asked for
DecodeLayerFields ==
    /\ dec.phase = "layers"
    /\ ~layers_materialized(dec)
    /\ dec.layer_set[dec.k] \in Range(wire.types)
    /\ \E i \in DOMAIN dec.schema[TypeIndex(wire, dec.layer_set[dec.k])] :
          LET field == dec.schema[TypeIndex(wire, dec.layer_set[dec.k])][i].name
          IN  /\ dec' = decode_layer_fields(wire, dec, {field})
              /\ ret' = Outcome("decode_layer", dec'.exc, {}, field)
    /\ UNCHANGED <<heap, lays, txts, doc, wire, ioVars>>

\* A text is missing from the texts section of the document bytes
FormatDropText ==
    /\ dec.phase = "idle"
    /\ \E k \in DOMAIN wire.texts :
          wire' = [wire EXCEPT !.texts = SelectSeq(@, LAMBDA t : t.name # wire.texts[k].name)]
    /\ UNCHANGED <<storeVars, dec, ioVars>>

\* The header of the container file is overwritten: magic, codec name,
\* advanced flag
FileMagic ==
    /\ cw.closed /\ cr = Unbuilt /\ cw.out[1].val = "Dmf1"
    /\ \E m \in BadMagics : cw' = [cw EXCEPT !.out[1].val = m]
    /\ UNCHANGED <<storeVars, codecVars, bw, br, cr, findex, pool>>

FileCodec ==
    /\ cw.closed /\ cr = Unbuilt /\ cw.out[2].val \in CodecNames
    /\ \E c \in BadCodecs : cw' = [cw EXCEPT !.out[2].val = c]
    /\ UNCHANGED <<storeVars, codecVars, bw, br, cr, findex, pool>>

FileAdvanced ==
    /\ cw.closed /\ cr = Unbuilt /\ ~cw.out[4].val
    /\ cw' = [cw EXCEPT !.out[4].val = TRUE]
    /\ UNCHANGED <<storeVars, codecVars, bw, br, cr, findex, pool>>

NextFormat ==
    \/ FormatMagic
    \/ FormatSpecial
    \/ FormatDropText
    \/ DecodeBegin
    \/ DecodeLayer
    \/ DecodeLayerFields
    \/ CommitLayers
    \/ FileMagic
    \/ FileCodec
    \/ FileAdvanced
    \/ ROpen
    \/ RNext

SpecFormat == InitFormat /\ [][NextFormat]_vars

\* Layer typename of the document bytes has a column with the flag set
HasSpecial(w, typename) ==
    \E c \in SpecialColumns(w) : w.types[c[1]] = typename

\* The error the header of a container file calls for ("" for a good header)
HeaderError(file) ==
    IF file[1].val # "Dmf1" THEN "IOError"
    ELSE IF file[2].val \notin {"none", "zip", "zipsq"} THEN "ValueError"
    ELSE IF file[4].val THEN "NotImplementedError"
    ELSE ""

\* C12: malformed input is rejected at once.  Decoding document bytes whose
\* magic is not DM_1 raises ValueError and builds no document; the decoder
\* never gets past a layer with a column whose special-encoding flag is set,
\* be the column decoded or skipped: it raises NotImplementedError there;
\* opening a container file whose magic is not Dmf1 raises IOError, one with
\* an unknown codec name ValueError, one with the advanced flag set
\* NotImplementedError, and such a reader yields no document.
FormatFailFast ==
    /\ dec.phase # "idle" /\ wire.magic # "DM_1"
          => dec.phase = "error" /\ dec.exc = "ValueError" /\ dec.st = NoDec.st
    /\ dec.phase \in {"layers", "done"}
          => \A j \in 1..(dec.k - 1) : ~HasSpecial(wire, dec.layer_set[j])
    /\ dec.phase = "layers" /\ ~layers_materialized(dec) /\ HasSpecial(wire, dec.layer_set[dec.k])
          => decode_layer_fields(wire, dec, {}).exc = "NotImplementedError"
    /\ dec.phase = "error" /\ wire.magic = "DM_1" /\ dec.k <= Len(dec.layer_set)
          /\ HasSpecial(wire, dec.layer_set[dec.k])
          => dec.exc = "NotImplementedError"
    /\ cr.built => /\ cr.r.exc = HeaderError(cw.out)
                   /\ (cr.r.exc # "" => cr.r.yielded = <<>> /\ ~cr.r.block.some)

\* The decoder was asked for one field of a layer, the flag is set on another
\* column of that layer, and a reader was opened on a file with a bad header
FormatFailFastWitness ==
    /\ ret.op = "decode_layer" /\ dec.phase = "error" /\ dec.exc = "NotImplementedError"
    /\ \E c \in SpecialColumns(wire) :
          /\ wire.types[c[1]] = dec.layer_set[dec.k]
          /\ dec.schema[c[1]][c[2]].name # ret.named
    /\ cr.built /\ cr.r.exc = "ValueError"

\* The document bytes with the texts section the encoder wrote
WithTexts(w) == [w EXCEPT !.texts = encode(EncInit, FALSE, TRUE).wire.texts]

\* The decoder that ran to its end over the bytes with every text present
UsualDecode == decode_run(WithTexts(wire), decode_begin(WithTexts(wire), dec.requested))

\* The span fields of layer k of the bytes whose context is no text of them
DanglingSpans(w, k) ==
    {w.schema[k][i].name : i \in {j \in DOMAIN w.schema[k] :
        /\ w.schema[k][j].type.typename = "SPAN"
        /\ \A t \in DOMAIN w.texts : w.texts[t].name # w.schema[k][j].type.arg}}

\* C13: a span field whose text is missing from the bytes is left out.
\* Decoding ends as it ends with the text present and does not raise on
\* account of the missing text; every decoded layer has the node count of the
\* bytes; no node has a span field whose text is missing, and every other
\* field of every node is the one decoded with the text present.
DanglingSpanLenient ==
    dec.phase \in {"done", "error"} /\ wire.magic = "DM_1" /\ SpecialColumns(wire) = {}
        /\ ret.op = "encode"
    => /\ dec.phase = UsualDecode.phase /\ dec.exc = UsualDecode.exc
       /\ dec.phase = "done" =>
             \A k \in DOMAIN wire.types :
                wire.types[k] \in DOMAIN dec.all_nodes =>
                   /\ Len(dec.all_nodes[wire.types[k]]) = wire.layers[k].num
                   /\ \A j \in 1..wire.layers[k].num :
                         dec.st.heap[dec.all_nodes[wire.types[k]][j]].f
                           = [c \in DOMAIN UsualDecode.st.heap[UsualDecode.all_nodes[wire.types[k]][j]].f
                                      \ DanglingSpans(wire, k) |->
                                 UsualDecode.st.heap[UsualDecode.all_nodes[wire.types[k]][j]].f[c]]

\* The whole document was decoded from bytes without the text of a span
\* field that nodes of the bytes carry
DanglingSpanLenientWitness ==
    /\ dec.phase = "done" /\ dec.requested = <<>> /\ ret.op = "encode"
    /\ \E k \in DOMAIN wire.types :
          /\ DanglingSpans(wire, k) # {}
          /\ \E j \in 1..wire.layers[k].num : \E c \in DanglingSpans(wire, k) :
                c \in DOMAIN UsualDecode.st.heap[UsualDecode.all_nodes[wire.types[k]][j]].f

-----------------------------------------------------------------------------
(* Failing compile and encode *)

\* C14: a compile() or encode that raises a validation error produces no
\* bytes and leaves every layer with the node array, the live count and the
\* node ids it had before the call.
ValidationNotPartiallyApplied ==
    [][ret'.op \in {"compile", "encode"} /\ ret'.exc \in ValidationErrors
           => /\ wire' = NoWire
              /\ lays' = lays
              /\ \A n \in DOMAIN heap : heap'[n].id = heap[n].id]_vars

-----------------------------------------------------------------------------
(* The frame of remove *)

\* What remove(ns) on layer L is to leave behind: the live count is down by
\* the number of nodes of ns, the nodes of ns are gone, every other node is in
\* the layer as before and the iteration yields the remaining nodes in their
\* previous order; the other layers iterate as before.
RemovedExactly(L, ns) ==
    /\ LayerLen(lays'[L]) = LayerLen(lays[L]) - Len(ns)
    /\ LayerIter(lays'[L]) = FilterSeq(LayerIter(lays[L]), Range(LayerIter(lays[L])) \ Range(ns))
    /\ \A n \in Range(LayerIter(lays'[L])) : heap'[n].coll = L
    /\ \A M \in DOMAIN lays \ {L} :
          LayerLen(lays'[M]) = LayerLen(lays[M]) /\ LayerIter(lays'[M]) = LayerIter(lays[M])

\* C16: a remove(X) that returns, for one node or a list of nodes of the
\* layer, removes exactly the nodes of X: len(layer) decreases by |X|, every
\* other live node stays and the iteration order of the remaining nodes is
\* their previous relative order, with or without a compaction.
RemoveFrame ==
    [][\A L \in DOMAIN lays : \A ns \in RemoveInputs :
          (/\ ret'.op = "remove" /\ ret'.exc = ""
           /\ remove(Cur, L, ns).exc = ""
           /\ heap' = remove(Cur, L, ns).st.heap
           /\ lays' = remove(Cur, L, ns).st.lays)
          => RemovedExactly(L, ns)]_vars

\* A remove of nodes that returned after it compacted the layer, which still
\* holds nodes
RemoveFrameWitness ==
    /\ ret.op = "remove" /\ ret.exc = ""
    /\ \E L \in ret.compacted :
          /\ LayerLen(lays[L]) > 0
          /\ Len(lays[L].nodes) = LayerLen(lays[L])
          /\ \E n \in DOMAIN heap : n <= StoreNodes /\ heap[n].coll = None

-----------------------------------------------------------------------------
(* Two small layers under add, add(node), add_many, remove, detach, retain *)
(* and add_field                                                           *)

MaxLayerNodes == 2   \* Node objects per run

MaxSlots == 2        \* add and add_many are tried on shorter node arrays only

\* doc.add_layer("a", pos=T.int32); doc.add_layer("b", pos=T.int32); one node
\* added to "a"
LayerInit ==
    LET st0 == Store(<<>>, <<>>, <<>>, Document)
        st1 == add_layer(st0, "a", <<[name |-> "pos", type |-> T_int32]>>)
        st2 == add_layer(st1, "b", <<[name |-> "pos", type |-> T_int32]>>)
    IN  add(st2, 1, "pos" :> IntV(1)).st

\* The outcome of a call on a layer: Outcome with the layer and the nodes the
\* call was given
Called(op, exc, L, args, named) ==
    [op |-> op, exc |-> exc, compacted |-> {}, named |-> named, layer |-> L, args |-> args]

InitLayer ==
    /\ heap = LayerInit.heap
    /\ lays = LayerInit.lays
    /\ txts = LayerInit.txts
    /\ doc = LayerInit.doc
    /\ ret = Called("init", "", 0, <<>>, "")
    /\ wire = NoWire
    /\ dec = NoDec
    /\ NoStorage

\* layer.add(**kwargs)
LAdd(L) ==
    /\ Len(heap) < MaxLayerNodes /\ Len(lays[L].nodes) < MaxSlots
    /\ SetStore(add(Cur, L, EmptyDict).st)
    /\ ret' = Called("add", add(Cur, L, EmptyDict).exc, L, <<>>, "")
    /\ UNCHANGED <<codecVars, ioVars>>

\* layer.add(node) for a Node object, bound or not
LAddNode(L) ==
    /\ Len(lays[L].nodes) < MaxSlots
    /\ \E n \in DOMAIN heap :
          /\ SetStore(add_node(Cur, L, n).st)
          /\ ret' = Called("add_node", add_node(Cur, L, n).exc, L, <<n>>, "")
    /\ UNCHANGED <<codecVars, ioVars>>

\* layer.add_many([node]) for a Node object, bound or not, or a new Node()
LAddMany(L) ==
    /\ Len(lays[L].nodes) < MaxSlots
    /\ \E n \in 1..Min(Len(heap) + 1, MaxLayerNodes) :
          LET st == IF n > Len(heap) THEN [Cur EXCEPT !.heap = Append(@, Node(EmptyDict))] ELSE Cur
          IN  /\ SetStore(add_many(st, L, <<n>>).st)
              /\ ret' = Called("add_many", add_many(st, L, <<n>>).exc, L, <<n>>, "")
    /\ UNCHANGED <<codecVars, ioVars>>

\* The node lists handed to remove and retain: up to two nodes, duplicates
\* allowed
NodeLists == {<<>>} \cup {<<n>> : n \in DOMAIN heap} \cup {<<n, m>> : n \in DOMAIN heap, m \in DOMAIN heap}

\* layer.remove(node), layer.remove([node, node])
LRemove(L) ==
    /\ \E ns \in {x \in NodeLists : x # <<>> /\ Cardinality(Range(x)) = Len(x)} :
          /\ SetStore(remove(Cur, L, ns).st)
          /\ ret' = Called("remove", remove(Cur, L, ns).exc, L, ns, "")
    /\ UNCHANGED <<codecVars, ioVars>>

\* node.detach()
LDetach ==
    /\ \E n \in DOMAIN heap :
          /\ SetStore(detach(Cur, n).st)
          /\ ret' = Called("detach", detach(Cur, n).exc, heap[n].coll, <<n>>, "")
    /\ UNCHANGED <<codecVars, ioVars>>

\* layer.retain(nodes); a retain that raises half way may leave the live count
\* too low, and is not tried again once the count is below zero
LRetain(L) ==
    /\ LayerLen(lays[L]) >= 0
    /\ \E ns \in NodeLists :
          /\ SetStore(retain(Cur, L, ns).st)
          /\ ret' = Called("retain", retain(Cur, L, ns).exc, L, ns, "")
    /\ UNCHANGED <<codecVars, ioVars>>

\* The fields added: one whose type has a default, one whose type has none
NewFields == {[name |-> "tag", type |-> T_string], [name |-> "head", type |-> T_noderef("a")]}

\* layer.add_field(name, type)
LAddField(L) ==
    /\ \E fld \in NewFields :
          /\ SetStore(add_field(Cur, L, fld.name, fld.type).st)
          /\ ret' = Called("add_field", add_field(Cur, L, fld.name, fld.type).exc, L, <<>>, fld.name)
    /\ UNCHANGED <<codecVars, ioVars>>

\* The layers under add, remove, detach and retain
NextLayer ==
    \/ \E L \in DOMAIN lays : LAdd(L)
    \/ \E L \in DOMAIN lays : LRemove(L)
    \/ LDetach
    \/ \E L \in DOMAIN lays : LRetain(L)

SpecLayer == InitLayer /\ [][NextLayer]_vars

\* The layers under add, remove and add_field
NextSchema ==
    \/ \E L \in DOMAIN lays : LAdd(L)
    \/ \E L \in DOMAIN lays : LRemove(L)
    \/ \E L \in DOMAIN lays : LAddField(L)

SpecSchema == InitLayer /\ [][NextSchema]_vars

\* The layers under add(**fields), add(node), add_many and remove alone
NextOwnership ==
    \/ \E L \in DOMAIN lays : LAdd(L)
    \/ \E L \in DOMAIN lays : LAddNode(L)
    \/ \E L \in DOMAIN lays : LAddMany(L)
    \/ \E L \in DOMAIN lays : LRemove(L)

SpecOwnership == InitLayer /\ [][NextOwnership]_vars

\* The slots (layer, position) that hold node n
SlotsOf(n) ==
    {s \in (DOMAIN lays) \X (1..MaxSlots) : s[2] \in DOMAIN lays[s[1]].nodes /\ lays[s[1]].nodes[s[2]] = n}

\* C19: every node object occupies at most one slot of at most one layer, and
\* it occupies slot i of layer L exactly when its collection is L and its id
\* is i.
ExclusiveOwnership ==
    \A n \in DOMAIN heap :
        /\ Cardinality(SlotsOf(n)) <= 1
        /\ \A L \in DOMAIN lays : \A i \in 1..MaxSlots :
              <<L, i>> \in SlotsOf(n) <=> (heap[n].coll = L /\ heap[n].id = i - 1)

\* C18: after a remove(n) or n.detach() that returned, the slot of n holds no
\* node, n.collection is None and the id of n is the unbound value -1.
Detached ==
    ret.op \in {"remove", "detach"} /\ ret.exc = "" =>
        \A n \in Range(ret.args) :
            /\ SlotsOf(n) = {}
            /\ heap[n].coll = None
            /\ heap[n].id = Node(EmptyDict).id

\* C17: after an add_field(name, type) that returned, every node of the layer
\* has the field set to the default of the type when the type has one, and
\* does not have the field as a key when the type has none.
AddFieldDefaults ==
    ret.op = "add_field" /\ ret.exc = "" =>
        \A n \in Range(LayerIter(lays[ret.layer])) :
            IF FieldType(lays[ret.layer].fields, ret.named).def # NoneV
            THEN /\ ret.named \in DOMAIN heap[n].f
                 /\ heap[n].f[ret.named] = FieldType(lays[ret.layer].fields, ret.named).def
            ELSE ret.named \notin DOMAIN heap[n].f

\* C15: retain(S) on a layer whose nodes each sit in the one slot their id
\* names, tombstones or not, for nodes S of the layer: the call returns, the
\* layer holds exactly the nodes of S in their previous order with ids
\* 0..|S|-1 and len(layer) = |S|, and every other node that was in the layer
\* is detached from it.
RetainExact ==
    [][ret'.op = "retain" /\ ExclusiveOwnership
          /\ Range(ret'.args) \subseteq Range(LayerIter(lays[ret'.layer]))
        => /\ ret'.exc = ""
           /\ lays'[ret'.layer].nodes = FilterSeq(LayerIter(lays[ret'.layer]), Range(ret'.args))
           /\ LayerLen(lays'[ret'.layer]) = Cardinality(Range(ret'.args))
           /\ \A i \in DOMAIN lays'[ret'.layer].nodes :
                 /\ heap'[lays'[ret'.layer].nodes[i]].id = i - 1
                 /\ heap'[lays'[ret'.layer].nodes[i]].coll = ret'.layer
           /\ \A n \in Range(LayerIter(lays[ret'.layer])) \ Range(ret'.args) :
                 heap'[n].coll = None]_vars

-----------------------------------------------------------------------------
(* Schema references after remove_layer *)

\* C20: after a remove_layer call that returned, every reference field
\* (noderef, noderef_many, nodespan) of every layer that remains in the
\* document names a layer of the document.
NoDanglingSchemaReference ==
    ret.op = "remove_layer" /\ ret.exc = "" =>
        referenced_layers(Cur) \subseteq DictNames(doc.layers)

-----------------------------------------------------------------------------
(* build_msgpack_directory_fileindex: a pool of workers, one task per file *)

NumWorkers == 2      \* processes of the Pool

\* The .docria files of the directory, in os.listdir order
FileNames == <<"a.docria", "b.docria", "c.docria">>

\* The directory and the basepath the index is built with
DirPath == <<"data">>

\* os.path.join(path, fpath)
path_join(path, fpath) == Append(path, fpath)

\* os.path.relpath(path, start) for a path below start
relpath(path, start) == SubSeq(path, Len(start) + 1, Len(path))

\* What a file of the directory may hold: two well-formed container files and
\* one whose header is not the magic
FileContents ==
    {written_file(MsgpackDocumentWriter(2, "zip"),
                  <<CHOOSE d \in Corpus : d.size = 3, CHOOSE d \in Corpus : d.size = 5>>).out,
     written_file(MsgpackDocumentWriter(1, "none"), <<CHOOSE d \in Corpus : d.size = 4>>).out,
     [written_file(MsgpackDocumentWriter(1, "none"), <<CHOOSE d \in Corpus : d.size = 4>>).out
         EXCEPT ![1].val = "XXXX"]}

\* _build_file_index(args): the DocumentFileIndex of the file with its
\* filepath, or the exception DocumentFileIndex.build raised
build_file_index(path, file, keys) ==
    [path |-> path, exc |-> build(file, keys).exc, index |-> build(file, keys)]

\* DocumentIndex.add(index): keyed by the path relative to basepath
DocumentIndex_add(master, basepath, item) ==
    DictSet(master, relpath(item.path, basepath), [item.index EXCEPT !.exc = ""])

\* The tasks handed to p.imap_unordered, none started, and an empty master index
InitPool ==
    /\ heap = <<>> /\ lays = <<>> /\ txts = <<>> /\ doc = Document
    /\ ret = Outcome("init", "", {}, "")
    /\ wire = NoWire /\ dec = NoDec
    /\ bw = Unbuilt /\ br = Unbuilt /\ cw = Unbuilt /\ cr = Unbuilt /\ findex = Unbuilt
    /\ \E files \in [DOMAIN FileNames -> FileContents] : \E keys \in IndexKeys :
          pool = [built |-> TRUE, files |-> files, keys |-> keys,
                  status |-> [i \in DOMAIN FileNames |-> "queued"],
                  results |-> <<>>, merged |-> 0, master |-> EmptyDict,
                  phase |-> "merging", exc |-> ""]

\* A free worker takes the next task of the list
PoolStart ==
    /\ pool.built /\ pool.phase = "merging"
    /\ Cardinality({i \in DOMAIN pool.status : pool.status[i] = "running"}) < NumWorkers
    /\ \E i \in DOMAIN pool.status :
          /\ pool.status[i] = "queued"
          /\ \A j \in 1..(i - 1) : pool.status[j] # "queued"
          /\ pool' = [pool EXCEPT !.status[i] = "running"]
    /\ UNCHANGED <<storeVars, codecVars, bw, br, cw, cr, findex>>

\* A worker ends its task: the result, or the exception, goes to the result
\* queue in completion order
PoolFinish ==
    /\ pool.built /\ pool.phase = "merging"
    /\ \E i \in DOMAIN pool.status :
          /\ pool.status[i] = "running"
          /\ pool' = [pool EXCEPT
                !.status[i] = "done",
                !.results = Append(@, build_file_index(path_join(DirPath, FileNames[i]),
                                                       pool.files[i], pool.keys))]
    /\ UNCHANGED <<storeVars, codecVars, bw, br, cw, cr, findex>>

\* One round of the loop over p.imap_unordered(...): the next result is added
\* to the master index; the exception of a failed task is raised in the
\* coordinator, which leaves the with block, and the pool is terminated
PoolMerge ==
    /\ pool.built /\ pool.phase = "merging"
    /\ pool.merged < Len(pool.results)
    /\ pool' = IF pool.results[pool.merged + 1].exc # ""
               THEN [pool EXCEPT !.phase = "raised", !.exc = pool.results[pool.merged + 1].exc]
               ELSE [pool EXCEPT !.merged = @ + 1,
                                 !.master = DocumentIndex_add(@, DirPath, pool.results[pool.merged + 1])]
    /\ UNCHANGED <<storeVars, codecVars, bw, br, cw, cr, findex>>

\* The iterator is exhausted: return master_indx
PoolReturn ==
    /\ pool.built /\ pool.phase = "merging"
    /\ pool.merged = Len(FileNames)
    /\ pool' = [pool EXCEPT !.phase = "returned"]
    /\ UNCHANGED <<storeVars, codecVars, bw, br, cw, cr, findex>>

NextPool == PoolStart \/ PoolFinish \/ PoolMerge \/ PoolReturn

SpecPool == InitPool /\ [][NextPool]_vars

\* The files whose own build succeeds
Buildable == {i \in DOMAIN FileNames : build(pool.files[i], pool.keys).exc = ""}

\* C21: when the coordinator is through, whatever the order in which the
\* workers ended, it returns an index that holds one entry for every file
\* whose build succeeds, under the file's relative path, equal to the index
\* built of that file alone, and no other entry.
WorkerFailureIsolated ==
    pool.built /\ pool.phase # "merging" =>
        /\ pool.phase = "returned"
        /\ DOMAIN pool.master = {<<FileNames[i]>> : i \in Buildable}
        /\ \A i \in Buildable :
              pool.master[<<FileNames[i]>>] = build(pool.files[i], pool.keys)

-----------------------------------------------------------------------------
(* The compaction trigger *)

\* The store of StoreInit after more nodes of "token" were removed, which
\* compacted the layer, and new nodes were added up to the array length at
\* which the trigger of remove does not fire yet; then some nodes removed.
TriggerInit ==
    LET st1 == remove(StoreInit, 1, <<4 * RemoveStride, 5 * RemoveStride>>).st
        st2 == populate(st1, 1, CompactTriggerLen - Len(st1.lays[1].nodes))
    IN  remove(st2, 1, <<1, 2, 4, 5>>).st

InitTrigger ==
    /\ heap = TriggerInit.heap
    /\ lays = TriggerInit.lays
    /\ txts = TriggerInit.txts
    /\ doc = TriggerInit.doc
    /\ ret = Outcome("init", "", {}, "")
    /\ wire = NoWire
    /\ dec = NoDec
    /\ NoStorage

\* The Node objects of that store.
TriggerNodes == Len(TriggerInit.heap)

\* layer.add(**kwargs) on the grown store
TriggerAdd(L) ==
    /\ Len(heap) < TriggerNodes + MaxNew
    /\ \E kw \in AddInputs :
          LET r == add(Cur, L, kw)
          IN  /\ SetStore(r.st)
              /\ ret' = Outcome("add", r.exc, {}, "")
    /\ UNCHANGED <<codecVars, ioVars>>

\* layer.add_many([Node(), ...]) on the grown store
TriggerAddMany(L) ==
    /\ \E j \in 1..Min(MaxMany, TriggerNodes + MaxNew - Len(heap)) :
          LET ns == [i \in 1..j |-> Len(heap) + i]
              st == [Cur EXCEPT !.heap = @ \o [i \in 1..j |-> Node(EmptyDict)]]
              r == add_many(st, L, ns)
          IN  /\ SetStore(r.st)
              /\ ret' = Outcome("add_many", r.exc, {}, "")
    /\ UNCHANGED <<codecVars, ioVars>>

NextTrigger ==
    \/ \E L \in DOMAIN lays : TriggerAdd(L)
    \/ \E L \in DOMAIN lays : TriggerAddMany(L)
    \/ \E L \in DOMAIN lays : StoreRemove(L)

SpecTrigger == InitTrigger /\ [][NextTrigger]_vars

\* A layer that is due for compaction: more than 16 slots, a live count below
\* 0.75 times the array length, tombstones in the array
Overdue(layer) ==
    /\ Len(layer.nodes) > CompactTriggerLen
    /\ 4 * layer.num < 3 * Len(layer.nodes)
    /\ None \in Range(layer.nodes)

\* C22: no add, add_many or remove that returns leaves a layer due for
\* compaction that was not due before the call: when the call makes the array
\* longer than 16 slots with a live count below 0.75 times its length, the
\* call has compacted the layer.
CompactionTriggered ==
    [][\A L \in DOMAIN lays :
          ret'.op \in {"add", "add_many", "remove"} /\ ret'.exc = "" /\ ~Overdue(lays[L])
          => ~Overdue(lays'[L])]_vars

-----------------------------------------------------------------------------
(* The options of compile *)

\* An int beyond the int32 range: k * 2^32 for k # 0.  Kept under its own tag
\* because the integers of the model are 32 bits wide; isinstance(value, int)
\* holds for it, the range test of DataTypeInt32.is_valid does not.
LongV(k) == [long |-> k]

OptionInputs == {LongV(1), IntV(Int32Max)}

\* node["pos"] = value on a live token: dict item assignment, no validation.
DocSetPos ==
    /\ \E n \in NodesOf("token") : \E v \in OptionInputs :
          /\ heap' = [heap EXCEPT ![n].f = DictSet(@, "pos", v)]
          /\ ret' = Outcome("setitem", "", {}, "")
    /\ UNCHANGED <<lays, txts, doc, codecVars, ioVars>>

\* doc.compile(extra_fields_ok=e, type_validation=t)
DocCompileWith ==
    /\ \E extra_fields_ok \in BOOLEAN : \E type_validation \in BOOLEAN :
          LET r == compile(Cur, extra_fields_ok, type_validation)
          IN  /\ SetStore(r.st)
              /\ ret' = [op |-> "compile", exc |-> r.exc,
                         compacted |-> IF r.exc = "" THEN AllLayers ELSE {}, named |-> "",
                         extra_fields_ok |-> extra_fields_ok,
                         type_validation |-> type_validation]
    /\ UNCHANGED <<codecVars, ioVars>>

NextOptions ==
    \/ DocAddToken
    \/ DocAddChunk
    \/ DocRemove
    \/ DocSetPos
    \/ DocCompileWith

SpecOptions == Init /\ [][NextOptions]_vars

\* C23: the two options of compile are independent.  compile with
\* extra_fields_ok=True (type_validation left True) raises a validation error
\* when a present declared field of a live node fails its type's validity
\* predicate (an int32 out of range, a reference to a removed node);
\* compile with type_validation=False (extra_fields_ok left False) raises
\* SchemaValidationError when a live node has an undeclared field.
CompileOptionsIndependent ==
    ret.op = "compile" =>
        /\ (ret.extra_fields_ok /\ ret.type_validation /\ HasInvalid) =>
              ret.exc \in ValidationErrors
        /\ (~ret.type_validation /\ ~ret.extra_fields_ok /\ HasUndeclared) =>
              ret.exc = "SchemaValidationError"

-----------------------------------------------------------------------------
(* References to nodes of foreign collections *)

MaxLayerObjects == 3     \* NodeLayerCollection objects per run

TokenFields == <<[name |-> "pos", type |-> T_int32]>>

\* The layer objects named "token" that the document does not hold: layers of
\* another Document, and layers that add_layer has replaced.
ForeignLayers == {L \in DOMAIN lays : lays[L].name = "token"} \ AllLayers

ForeignNodes == UNION {Range(LiveNodes(lays[L])) : L \in ForeignLayers}

\* doc.add_layer("token", pos=T.int32) while the document has a layer "token":
\* self.layers[name] is overwritten, the old collection keeps its nodes.
DocReplaceLayer ==
    /\ wire = NoWire
    /\ HasLayer("token")
    /\ Len(lays) < MaxLayerObjects
    /\ SetStore(add_layer(Cur, "token", TokenFields))
    /\ ret' = Outcome("add_layer", "", {}, "")
    /\ UNCHANGED <<codecVars, ioVars>>

\* other = Document(); other.add_layer("token", pos=T.int32).add(pos=7): a
\* layer of the same name, with one node, that this document does not hold.
OtherDocLayer ==
    /\ wire = NoWire
    /\ Len(lays) < MaxLayerObjects
    /\ Len(heap) < MaxDocNodes
    /\ LET st1 == [Cur EXCEPT !.lays = Append(@, NodeLayerCollection("token", TokenFields))]
       IN  SetStore(add(st1, Len(lays) + 1, "pos" :> IntV(7)).st)
    /\ ret' = Outcome("other", "", {}, "")
    /\ UNCHANGED <<codecVars, ioVars>>

ForeignInputs ==
    {"head" :> NodeV(t) : t \in ForeignNodes} \cup
    {"parts" :> ListV(<<t>>) : t \in ForeignNodes} \cup
    {"range" :> NodeSpanV(t, t) : t \in ForeignNodes}

\* chunk.add(head=node), chunk.add(parts=[node]), chunk.add(range=NodeSpan(node, node))
\* for a node of a foreign collection.
DocAddForeign == DocAdd("chunk", ForeignInputs)

NextForeign ==
    \/ DocAddToken
    \/ DocAddChunk
    \/ DocAddForeign
    \/ DocReplaceLayer
    \/ OtherDocLayer
    \/ DocCompile
    \/ DocEncode

SpecForeign == Init /\ [][NextForeign]_vars

\* Some live node of a layer of the document holds, in a declared reference
\* field, a node that is live in a collection other than the document's
\* layer of the declared name.
ForeignRef ==
    \E name \in DictNames(doc.layers) : \E n \in NodesOf(name) :
        \E i \in DOMAIN lays[LayerOf(name)].fields :
            /\ lays[LayerOf(name)].fields[i].type.typename \in RefTypenames
            /\ lays[LayerOf(name)].fields[i].name \in DOMAIN heap[n].f
            /\ HasLayer(lays[LayerOf(name)].fields[i].type.arg)
            /\ \E m \in Referenced(heap[n].f[lays[LayerOf(name)].fields[i].name]) :
                  /\ heap[m].coll # None
                  /\ heap[m].coll # LayerOf(lays[LayerOf(name)].fields[i].type.arg)

\* C24: compile(), alone or as the first step of encode, raises a validation
\* error when a noderef, noderef_many or nodespan value of a live node is a
\* node live in a collection other than the document's current layer of the
\* declared name (a layer of another Document, or a layer object that
\* add_layer has replaced); encode then returns no bytes.
ForeignReferencesRejected ==
    (ret.op \in {"compile", "encode"} /\ ForeignRef) =>
        ret.exc \in ValidationErrors /\ wire = NoWire

-----------------------------------------------------------------------------
(* Seeking in the boundary stream *)

\* _BoundaryReader._to_absolute
to_absolute(b, offset) ==
    LET boundary_val == shl(1, b)
        upper == offset - boundary_val + 1
    IN  IF offset < boundary_val - 1 THEN offset + 1
        ELSE (upper \div (boundary_val - 4)) * 4 + boundary_val + 4 + upper

\* _BoundaryReader.seek(offset): the underlying stream is positioned too.
boundary_seek(r, offset) ==
    [r EXCEPT !.offset = offset, !.pos = to_absolute(r.boundary, offset), !.eof = FALSE]

\* The logical offsets sought: in the first segment, its last byte, the first
\* bytes after the first marker, the last byte before the second marker and
\* the first bytes after it.
SeekOffsets(b) ==
    {0, 1, (2 ^ b) - 2, (2 ^ b) - 1, 2 ^ b,
     2 * (2 ^ b) - 6, 2 * (2 ^ b) - 5, 2 * (2 ^ b) - 4}

SeekReadSizes(b) == {1, 10, (2 ^ b) - 4}

MaxSeeks == 2        \* seek() calls that a read follows

\* reader.seek(L)
BSeek ==
    /\ br.built /\ br.exc = "" /\ br.reads < MaxSeeks
    /\ \E L \in {l \in SeekOffsets(br.boundary) : l < bw.nbytes} :
          /\ br' = boundary_seek(br, L)
          /\ ret' = [op |-> "seek", exc |-> "", offset |-> L, abs |-> to_absolute(br.boundary, L)]
    /\ UNCHANGED <<heap, lays, txts, doc, codecVars, bw, cw, cr, findex, pool>>

\* reader.read(n) right after a seek
BSeekRead ==
    /\ br.built /\ br.exc = "" /\ ret.op = "seek"
    /\ \E n \in SeekReadSizes(br.boundary) :
          /\ br' = read(br, bw.out, n)
          /\ ret' = [op |-> "read", exc |-> br'.exc, offset |-> ret.offset, n |-> n,
                     data |-> SubSeq(br'.ret, Len(br.ret) + 1, Len(br'.ret))]
    /\ UNCHANGED <<heap, lays, txts, doc, codecVars, bw, cw, cr, findex, pool>>

NextSeek ==
    \/ BWrite
    \/ BWriterClose
    \/ BOpen
    \/ BSeek
    \/ BSeekRead

SpecSeek == InitBoundary /\ [][NextSeek]_vars

\* A physical position that holds a caller byte: not the header byte, not
\* one of the four bytes of a marker.
IsCaller(p, b) == p >= 1 /\ (p < 2 ^ b \/ p % (2 ^ b) >= 4)

\* The logical offset of the caller byte at physical position p.
LogicalOf(p, b) == p - 1 - 4 * shr(p, b)

\* _to_absolute gives the physical position of the sought logical byte.
SeekPositioned ==
    ret.op = "seek" =>
        /\ IsCaller(ret.abs, br.boundary)
        /\ LogicalOf(ret.abs, br.boundary) = ret.offset
        /\ bw.out[ret.abs + 1] = Data(ret.offset, 1)[1]

\* C25: _to_absolute(L) is the physical offset at which the writer stored
\* logical byte L, never inside the header byte or a marker, and a read(n)
\* right after seek(L) raises nothing and returns exactly the logical bytes
\* [L, L+n) (fewer only at the end of the file), never more than n bytes.
SeekReadExact ==
    /\ SeekPositioned
    /\ ret.op = "read" =>
          /\ ret.exc = ""
          /\ Len(ret.data) <= ret.n
          /\ ret.data = Data(ret.offset, Min(ret.n, bw.nbytes - ret.offset))

-----------------------------------------------------------------------------
(* The layout of the boundary stream under write and split *)

\* _BoundaryWriter.split
split(w) == [w EXCEPT !.lastsplit = w.written]

\* The physical byte counts at the split() calls so far.
Splits == IF ret.op = "split" THEN ret.splits ELSE <<>>

\* writer.split(); a call that would record the count it already holds is
\* left out.
BSplit ==
    /\ bw.exc = "" /\ ~bw.closed
    /\ bw.lastsplit # bw.written
    /\ bw' = split(bw)
    /\ ret' = [op |-> "split", exc |-> "", splits |-> Append(Splits, bw.written)]
    /\ UNCHANGED <<heap, lays, txts, doc, codecVars, br, cw, cr, findex, pool>>

NextSplit ==
    \/ BWrite
    \/ BSplit
    \/ BWriterClose

SpecSplit == InitBoundary /\ [][NextSplit]_vars

\* The physical byte count at the last split() before the marker at
\* position m was written: 1 if there was none.
SplitBefore(m) ==
    LET S == {1} \cup {s \in Range(Splits) : s <= m}
    IN  CHOOSE x \in S : \A y \in S : y <= x

\* C26: after any sequence of write() and split() calls physical byte 0 is
\* the exponent b; every multiple k*2^b (k >= 1) past which bytes were
\* written starts a 4-byte marker and caller bytes follow it; every other
\* physical byte is a caller byte, the caller bytes being the written
\* sequence in write order; and the marker at k*2^b is the big-endian signed
\* value max(s - k*2^b, -2^31) with s the physical byte count at the last
\* split() before the marker was written (1 if none), which is <= 0.
WriterLayout ==
    (bw.built /\ bw.exc = "") =>
        LET b == bw.boundary
            n == Len(bw.out)
            markers == {k \in 1..shr(n, b) : n > shl(k, b)}
        IN  /\ bw.out[1] = b
            /\ n = bw.written
            /\ n = 1 + bw.nbytes + 4 * Cardinality(markers)
            /\ \A p \in 1..(n - 1) :
                  IsCaller(p, b) => bw.out[p + 1] = Data(LogicalOf(p, b), 1)[1]
            /\ \A k \in markers :
                  /\ n > shl(k, b) + 4
                  /\ SplitBefore(shl(k, b)) - shl(k, b) <= 0
                  /\ SubSeq(bw.out, shl(k, b) + 1, shl(k, b) + 4) =
                        pack_i(Max(SplitBefore(shl(k, b)) - shl(k, b), Int32Min))

\* Two markers were written and split() was called between them.
WriterLayoutWitness ==
    /\ bw.built /\ bw.exc = ""
    /\ Len(bw.out) > shl(2, bw.boundary)
    /\ \E s \in Range(Splits) : s > shl(1, bw.boundary) + 4 /\ s <= shl(2, bw.boundary)

-----------------------------------------------------------------------------
(* The container writer over a boundary writer *)

\* The encoded documents written: a short one, and one long enough for the
\* blocks to cross the markers of the boundary stream.
BlockCorpus ==
    {[props |-> ("k" :> 1), size |-> 3],
     [props |-> ("k" :> 2), size |-> 3000]}

\* outputio.write(item) for the items that a call appended to the writer's
\* output, each through the boundary writer; then outputio.split().
RECURSIVE write_items(_, _, _)
write_items(w, items, i) ==
    IF i > Len(items) THEN w
    ELSE write_items(write(w, Data(w.nbytes, items[i].size)), items, i + 1)

write_through(w, before, after) ==
    IF Len(after) > Len(before)
    THEN split(write_items(w, SubSeq(after, Len(before) + 1, Len(after)), 1))
    ELSE w

\* What a call on the container writer did to the output: the physical
\* positions at which the blocks written so far start, and those at which a
\* split was declared.
Blocked(op, before, after) ==
    [op |-> op, exc |-> "", wrote |-> after.written # before.written,
     starts |-> IF after.written # before.written
                THEN Append(ret.starts, before.written) ELSE ret.starts,
     declared |-> IF after.written # before.written
                  THEN Append(ret.declared, after.lastsplit) ELSE ret.declared]

\* MsgpackDocumentWriter(_BoundaryWriter(raw, boundary), num_docs_per_block, codec)
InitBlocks ==
    /\ heap = <<>> /\ lays = <<>> /\ txts = <<>> /\ doc = Document
    /\ wire = NoWire /\ dec = NoDec
    /\ \E n \in BlockSizes, c \in CodecNames :
          /\ cw = MsgpackDocumentWriter(n, c)
          /\ bw = write_through(BoundaryWriter(MinBoundary), <<>>, cw.out)
    /\ ret = [op |-> "init", exc |-> "", wrote |-> TRUE,
              starts |-> <<>>, declared |-> <<bw.lastsplit>>]
    /\ br = Unbuilt /\ cr = Unbuilt /\ findex = Unbuilt /\ pool = Unbuilt

\* writer.write(MsgpackDocument)
KWrite ==
    /\ ~cw.closed /\ cw.exc = "" /\ Len(cw.written) < MaxDocs
    /\ \E d \in BlockCorpus :
          /\ cw' = cwrite(cw, d)
          /\ bw' = write_through(bw, cw.out, cw'.out)
          /\ ret' = Blocked("write", bw, bw')
    /\ UNCHANGED <<heap, lays, txts, doc, codecVars, br, cr, findex, pool>>

\* writer.flush()
KFlush ==
    /\ ~cw.closed /\ cw.exc = ""
    /\ cw' = flush(cw)
    /\ bw' = write_through(bw, cw.out, cw'.out)
    /\ ret' = Blocked("flush", bw, bw')
    /\ UNCHANGED <<heap, lays, txts, doc, codecVars, br, cr, findex, pool>>

\* writer.close()
KClose ==
    /\ ~cw.closed /\ cw.exc = ""
    /\ cw' = close(cw)
    /\ bw' = [write_through(bw, cw.out, cw'.out) EXCEPT !.closed = TRUE]
    /\ ret' = Blocked("close", bw, bw')
    /\ UNCHANGED <<heap, lays, txts, doc, codecVars, br, cr, findex, pool>>

NextBlocks ==
    \/ KWrite
    \/ KFlush
    \/ KClose

SpecBlocks == InitBlocks /\ [][NextBlocks]_vars

\* The blocks of the writer's output: what follows the four header items.
BlocksOf(w) == SubSeq(w.out, 5, Len(w.out))

\* C27: after construction and after every write(), flush() and close() the
\* number of buffered documents is at least 0 and below num_docs_per_block;
\* every block written holds between 1 and num_docs_per_block documents;
\* and over a boundary writer a split is declared right after the header
\* and right after each block, so that every block starts at a declared
\* split position.
BlockDiscipline ==
    /\ cw.exc = "" /\ bw.exc = ""
    /\ 0 <= cw.current_block_count /\ cw.current_block_count < cw.num_docs_per_block
    /\ \A i \in DOMAIN BlocksOf(cw) :
          /\ 1 <= Len(BlocksOf(cw)[i].val.raw)
          /\ Len(BlocksOf(cw)[i].val.raw) <= cw.num_docs_per_block
    /\ bw.lastsplit = bw.written
    /\ Len(ret.starts) = Len(BlocksOf(cw))
    /\ \A i \in DOMAIN ret.starts : ret.starts[i] = ret.declared[i]

\* A close with an empty buffer came after blocks that cross a marker of the
\* boundary stream, one of them written by a flush of a buffer not yet full.
BlockDisciplineWitness ==
    /\ cw.closed /\ ret.op = "close" /\ ~ret.wrote
    /\ Len(BlocksOf(cw)) >= 2
    /\ bw.seg >= 1
    /\ Len(ret.starts) = Len(BlocksOf(cw))
    /\ \E i \in DOMAIN BlocksOf(cw) : Len(BlocksOf(cw)[i].val.raw) < cw.num_docs_per_block

-----------------------------------------------------------------------------
(* The offsets of the texts *)

\* Spans over "main": main[0:2], main[1:3], main[2:2], and
\* TextSpan(main, 1, len + 2), which the constructor accepts.
SpanInputs ==
    {"text" :> TextSpanV(MainObj, 0, 2),
     "text" :> TextSpanV(MainObj, 1, 3),
     "text" :> TextSpanV(MainObj, 2, 2),
     "text" :> TextSpanV(MainObj, 1, Len(MainText) + 2)}

\* token.add(text=span)
DocAddSpan == DocAdd("token", SpanInputs)

\* MsgpackCodec.decode(data)
DocDecode ==
    /\ wire # NoWire
    /\ dec.phase = "idle"
    /\ dec' = decode(wire)
    /\ UNCHANGED <<storeVars, wire, ioVars>>

NextOffsets ==
    \/ DocAddSpan
    \/ DocAddToken
    \/ DocRemove
    \/ DocEncode
    \/ DocDecode

SpecOffsets == Init /\ [][NextOffsets]_vars

\* The cut-point list of the text of that name in the compiled document.
CutPoints(name) == compile(Cur, FALSE, TRUE).mapping[name]

\* The span values held by the live nodes of the document in span fields
\* over the text of that name.
SpansOver(name) ==
    UNION {{q[2] : q \in {p \in span_values(Cur, L) : p[1] = name}} : L \in AllLayers}

\* Every span lies within its text, as the spans that Text.__getitem__ makes.
SpansInBounds ==
    \A name \in DictNames(doc.texts) : \A v \in SpansOver(name) :
        0 <= v.start /\ v.start <= v.stop /\ v.stop <= Len(txts[DictGet(doc.texts, name)].text)

\* The text of that name on the wire: its segments.
WireSegs(name) == (CHOOSE t \in Range(wire.texts) : t.name = name).segs

\* The span fields of the decoded nodes carry the offsets of the spans of
\* the nodes they were encoded from.
SpansDecoded ==
    \A name \in DictNames(doc.layers) :
        LET a == lays[LayerOf(name)]
            b == dec.st.lays[DictGet(dec.st.doc.layers, name)]
        IN  \A i \in DOMAIN a.nodes : \A k \in SpanFieldIxs(a) :
               LET f == a.fields[k].name
               IN  f \in DOMAIN heap[a.nodes[i]].f =>
                      /\ f \in DOMAIN dec.st.heap[b.nodes[i]].f
                      /\ dec.st.heap[b.nodes[i]].f[f].start = heap[a.nodes[i]].f[f].start
                      /\ dec.st.heap[b.nodes[i]].f[f].stop = heap[a.nodes[i]].f[f].stop

OffsetsCompacted ==
    /\ wire # NoWire =>
          \A name \in DictNames(doc.texts) :
             LET cut == CutPoints(name)
                 text == txts[DictGet(doc.texts, name)].text
             IN  /\ \A i \in 1..(Len(cut) - 1) : cut[i] < cut[i + 1]
                 /\ cut[1] = 0
                 /\ cut[Len(cut)] = Len(text)
                 /\ \A v \in SpansOver(name) : {v.start, v.stop} \subseteq Range(cut)
                 /\ WireSegs(name) = Text_compile(text, cut)
                 /\ Join(WireSegs(name)) = text
    /\ dec.phase = "done" => SpansDecoded

-----------------------------------------------------------------------------
(* The columns of an encoded layer *)

\* DataTypes.ext(typename)
T_ext(typename) == DataType("DataType", "EXT", typename, NoneV)

\* ExtData(type, data)
ExtV(data) == [ext |-> data]

\* The schemas of the layer "token": scalar and span fields, with and
\* without a field of an ext type.
ColumnSchemas ==
    {<<[name |-> "pos", type |-> T_int32], [name |-> "text", type |-> T_span("main")]>>,
     <<[name |-> "pos", type |-> T_int32], [name |-> "text", type |-> T_span("main")],
       [name |-> "blob", type |-> T_ext("x")]>>}

ColumnInit(fields) ==
    add_layer(add_text(Store(<<>>, <<>>, <<>>, Document), "main", MainText), "token", fields)

InitColumns ==
    /\ \E fields \in ColumnSchemas :
          /\ heap = ColumnInit(fields).heap
          /\ lays = ColumnInit(fields).lays
          /\ txts = ColumnInit(fields).txts
          /\ doc = ColumnInit(fields).doc
    /\ ret = Outcome("init", "", {}, "")
    /\ wire = NoWire
    /\ dec = NoDec
    /\ NoStorage

ColumnInputs ==
    {EmptyDict,
     "pos" :> IntV(5),
     ("pos" :> IntV(6)) @@ ("text" :> TextSpanV(MainObj, 0, 2)),
     "text" :> TextSpanV(MainObj, 1, 3)} \cup
    (IF "blob" \in FieldNames(lays[LayerOf("token")].fields)
     THEN {("pos" :> IntV(7)) @@ ("blob" :> ExtV("12"))} ELSE {})

\* token.add(**kwargs)
ColAdd == DocAdd("token", ColumnInputs)

NextColumns ==
    \/ ColAdd
    \/ DocRemove
    \/ DocEncode

SpecColumns == InitColumns /\ [][NextColumns]_vars

\* The live node of the layer with that id.
NodeWithId(layer, id) == CHOOSE n \in Range(LiveNodes(layer)) : heap[n].id = id

\* C29: encode of a document that passes validation writes, for every layer
\* and every field of its schema, of every declared data type including
\* ext, one column with exactly one entry (value or absent marker) per live
\* node in node id order, two entries (start and stop ordinal) per node for
\* a span field; and the node count written for the layer is the number of
\* live nodes.
ColumnShape ==
    ret.op = "encode" =>
        \/ ret.exc \in ValidationErrors
        \/ /\ ret.exc = ""
           /\ \A k \in DOMAIN doc.layers :
                 LET layer == lays[doc.layers[k].obj]
                     live == Cardinality(LiveSlots(layer))
                     cols == wire.layers[k].cols
                 IN  /\ wire.layers[k].num = live
                     /\ Len(cols) = Len(layer.fields)
                     /\ \A i \in DOMAIN layer.fields :
                           IF layer.fields[i].type.typename = "SPAN"
                           THEN /\ Len(cols[i].data) = 2 * live
                                /\ \A j \in 1..live :
                                      (cols[i].data[2 * j - 1] = NoneV) =
                                         (layer.fields[i].name \notin
                                             DOMAIN heap[NodeWithId(layer, j - 1)].f)
                           ELSE /\ Len(cols[i].data) = live
                                /\ \A j \in 1..live :
                                      cols[i].data[j] =
                                         node_getter(Cur, NodeWithId(layer, j - 1),
                                                     layer.fields[i].name)

-----------------------------------------------------------------------------
(* A document and its decoded copy under the same mutations *)

MaxMutations == 2    \* mutations applied to the document and to its copy

\* What a call on the document and the same call on the decoded copy gave:
\* the exception of each ("" when it returned) and the calls so far.
Mutations == IF "muts" \in DOMAIN ret THEN ret.muts ELSE 0

Both(op, exc, dexc) == [op |-> op, exc |-> exc, dexc |-> dexc, muts |-> Mutations + 1]

\* The decoded copy's layer of that name.
DecLayerOf(name) == DictGet(dec.st.doc.layers, name)

\* The array positions of "token" that hold a node in the document and in
\* the copy.
BothLive ==
    {i \in DOMAIN lays[LayerOf("token")].nodes :
        /\ lays[LayerOf("token")].nodes[i] # None
        /\ i \in DOMAIN dec.st.lays[DecLayerOf("token")].nodes
        /\ dec.st.lays[DecLayerOf("token")].nodes[i] # None}

Mutable == dec.phase = "done" /\ Mutations < MaxMutations

\* token.remove(token[i]) on both
BothRemove ==
    /\ Mutable
    /\ \E i \in BothLive :
          LET r == remove(Cur, LayerOf("token"), <<lays[LayerOf("token")].nodes[i]>>)
              q == remove(dec.st, DecLayerOf("token"),
                          <<dec.st.lays[DecLayerOf("token")].nodes[i]>>)
          IN  /\ SetStore(r.st)
              /\ dec' = [dec EXCEPT !.st = q.st]
              /\ ret' = Both("remove", r.exc, q.exc)
    /\ UNCHANGED <<wire, ioVars>>

\* token[i]["pos"] = value on both
BothSetPos ==
    /\ Mutable
    /\ \E i \in BothLive : \E v \in OptionInputs :
          /\ heap' = [heap EXCEPT ![lays[LayerOf("token")].nodes[i]].f = DictSet(@, "pos", v)]
          /\ dec' = [dec EXCEPT !.st.heap[dec.st.lays[DecLayerOf("token")].nodes[i]].f =
                                     DictSet(@, "pos", v)]
          /\ ret' = Both("setitem", "", "")
    /\ UNCHANGED <<lays, txts, doc, wire, ioVars>>

\* token.add(**kwargs) on both
BothAdd ==
    /\ Mutable
    /\ \E kw \in AddInputs :
          LET r == add(Cur, LayerOf("token"), kw)
              q == add(dec.st, DecLayerOf("token"), kw)
          IN  /\ SetStore(r.st)
              /\ dec' = [dec EXCEPT !.st = q.st]
              /\ ret' = Both("add", r.exc, q.exc)
    /\ UNCHANGED <<wire, ioVars>>

\* doc.compile() on both
BothCompile ==
    /\ dec.phase = "done"
    /\ "muts" \in DOMAIN ret /\ ret.op # "compile"
    /\ LET r == compile(Cur, FALSE, TRUE)
           q == compile(dec.st, FALSE, TRUE)
       IN  /\ SetStore(r.st)
           /\ dec' = [dec EXCEPT !.st = q.st]
           /\ ret' = [Both("compile", r.exc, q.exc) EXCEPT !.muts = Mutations]
    /\ UNCHANGED <<wire, ioVars>>

NextDecoded ==
    \/ DocAddToken
    \/ DocEncode
    \/ DocDecode
    \/ BothRemove
    \/ BothSetPos
    \/ BothAdd
    \/ BothCompile

SpecDecoded == Init /\ [][NextDecoded]_vars

\* C30: the same mutation applied to a document and to decode(encode(doc))
\* makes add() and compile() fail on the decoded document exactly when they
\* fail on the original.
ValidatesAlike ==
    ("muts" \in DOMAIN ret /\ ret.op \in {"add", "compile"}) =>
        ((ret.exc = "") <=> (ret.dexc = ""))

====
